---- MODULE Spec2Model ----
(***************************************************************************)
(* py-xpd: a textual macro preprocessor.                                   *)
(*                                                                         *)
(* The model follows the four stages of the program:                       *)
(*   tokenize.tokenize      the lexer (characters to pieces),              *)
(*   match2.match_sequence  the directive recognizer (a table-driven DFA), *)
(*   match2.read_file       the definition harvester / include resolver,   *)
(*   expand.expand_stream   the expander.                                  *)
(*                                                                         *)
(* Texts are sequences of one-character strings.  Columns are 0-based as   *)
(* in the program; the character at column c of a line is line[c + 1].     *)
(***************************************************************************)
EXTENDS Integers, Sequences, FiniteSets, TLC

VARIABLES
    tok,                \* tokenize(): the lexer's local state and the pieces it yielded
    files,              \* the file system: file name -> contents
    pep479,             \* the interpreter turns a StopIteration raised inside a
                        \* generator into a RuntimeError (Python 3.7 and later)
    readers,            \* the active read_file() generators, innermost last
    macro_definitions,  \* the macro table shared by read_file() and expand_stream()
    inbox,              \* <<>>, or what StreamGetter.get() is about to return: <<piece>>, <<NoPiece>>
    estack,             \* the active expand_stream() generators, innermost last
    expand_nesting,     \* expand.py: list of (macro_call, macro_def) being expanded
    output,             \* the pieces main.run() received, in order
    status,             \* "running", "done", "fatal" (report_error exit) or "crash" (exception)
    reports             \* the calls of report.report_error, in order

vars == <<tok, files, pep479, readers, macro_definitions, inbox, estack, expand_nesting,
          output, status, reports>>

\* Python's None, at each type it is used at
None == "None"
NoPiece == [kind |-> None]
NoText == <<None>>
NoPos == [lineno |-> 0, fname |-> NoText, column |-> 0]
NoState == 0

-----------------------------------------------------------------------------
(* ast.py: the piece kinds *)

PIECE_COMMA == "comma"
PIECE_COMMENT == "comment"
PIECE_EOF == "eof"
PIECE_EOL == "newline"
PIECE_IDENTIFIER == "identifier"
PIECE_PARCLOSE == "parclose"
PIECE_PAROPEN == "paropen"
PIECE_SPACES == "whitespace"
PIECE_STRING == "string"
PIECE_TEXT == "text"
NUM_PIECES == 10

PieceKinds ==
    {PIECE_COMMA, PIECE_COMMENT, PIECE_EOF, PIECE_EOL, PIECE_IDENTIFIER,
     PIECE_PARCLOSE, PIECE_PAROPEN, PIECE_SPACES, PIECE_STRING, PIECE_TEXT}

\* report.Position(lineno, fname, column)
Position(lineno, fname, column) ==
    [lineno |-> lineno, fname |-> fname, column |-> column]

\* ast.SubstrPiece(kind, pos, length, line_text): get_text() is the slice
\* line_text[pos.column : pos.column + length]
SubstrPiece(kind, pos, length, line_text) ==
    [kind |-> kind, pos |-> pos,
     text |-> SubSeq(line_text, pos.column + 1, pos.column + length)]

\* ast.StrPiece(kind, pos, text)
StrPiece(kind, pos, text) == [kind |-> kind, pos |-> pos, text |-> text]

-----------------------------------------------------------------------------
(* Characters *)

NL == "\n"
CR == "\r"
LowerCase ==
    {"a", "b", "c", "d", "e", "f", "g", "h", "i", "j", "k", "l", "m",
     "n", "o", "p", "q", "r", "s", "t", "u", "v", "w", "x", "y", "z"}
UpperCase ==
    {"A", "B", "C", "D", "E", "F", "G", "H", "I", "J", "K", "L", "M",
     "N", "O", "P", "Q", "R", "S", "T", "U", "V", "W", "X", "Y", "Z"}
Digits == {"0", "1", "2", "3", "4", "5", "6", "7", "8", "9"}

\* [ \t]
IsSpaceChar(c) == c \in {" ", "\t"}
\* [A-Za-z_]
IsIdStart(c) == c \in LowerCase \cup UpperCase \cup {"_"}
\* [A-Za-z0-9_], also the word characters of \b
IsIdChar(c) == c \in LowerCase \cup UpperCase \cup Digits \cup {"_"}

Min(S) == CHOOSE m \in S : \A n \in S : m <= n

RECURSIVE Concat(_)
\* "".join(texts)
Concat(texts) ==
    IF texts = <<>> THEN <<>> ELSE Head(texts) \o Concat(Tail(texts))

\* the texts of a list of pieces
Texts(pieces) == [i \in 1..Len(pieces) |-> pieces[i].text]

-----------------------------------------------------------------------------
(* tokenize.py: the lexer *)

\* iterating over a file yields its lines, each keeping its newline; cur is the
\* part of the line read so far
SplitLines(data, cur) ==
    LET text == cur \o data
        IsEnd(i) == text[i] = NL
        ends == SelectSeq([i \in 1..Len(text) |-> i], IsEnd)
        last == IF ends = <<>> THEN 0 ELSE ends[Len(ends)]
        lines == [k \in 1..Len(ends) |->
                     SubSeq(text, IF k = 1 THEN 1 ELSE ends[k - 1] + 1, ends[k])]
    IN IF last < Len(text) THEN Append(lines, SubSeq(text, last + 1, Len(text)))
       ELSE lines

\* open(fname) reads in text mode with universal newlines: a carriage return, and
\* a carriage return followed by a newline, arrive as one newline
TextMode(data) ==
    LET Kept(i) == ~(data[i] = CR /\ i < Len(data) /\ data[i + 1] = NL)
        kept == SelectSeq([i \in 1..Len(data) |-> i], Kept)
    IN [k \in 1..Len(kept) |-> IF data[kept[k]] = CR THEN NL ELSE data[kept[k]]]

line_stream_file(data) == SplitLines(TextMode(data), <<>>)

\* end of the line without its newline: the "if line[-1] == '\n'" idiom
EndOfText(line) == IF line[Len(line)] = NL THEN Len(line) - 1 ELSE Len(line)

\* line.find(lit, start): the least column >= start where lit occurs, or -1
Find(line, lit, start) ==
    LET hits == {s \in start..(Len(line) - Len(lit)) :
                    SubSeq(line, s + 1, s + Len(lit)) = lit}
    IN IF hits = {} THEN -1 ELSE Min(hits)

find_end_of_block_comment_piece(line, search_start) ==
    LET i == Find(line, <<"*", "/">>, search_start)
    IN IF i < 0 THEN [end |-> EndOfText(line), found |-> FALSE]
       ELSE [end |-> i + 2, found |-> TRUE]

RECURSIVE RunEnd(_, _, _)
\* end (exclusive) of the longest run from column i of characters of a class:
\* the greedy [..]+ and [..]* of the patterns
RunEnd(line, i, isSpaces) ==
    IF i < Len(line) /\ (IF isSpaces THEN IsSpaceChar(line[i + 1]) ELSE IsIdChar(line[i + 1]))
    THEN RunEnd(line, i + 1, isSpaces) ELSE i

RECURSIVE StringEnd(_, _)
\* STRING_PAT after its opening quote, scanning at column i: the end (exclusive)
\* of the match, or -1.  "." does not match a newline.
StringEnd(line, i) ==
    IF i >= Len(line) THEN -1
    ELSE IF line[i + 1] = "\"" THEN i + 1
    ELSE IF line[i + 1] = "\\"
         THEN (IF i + 1 < Len(line) /\ line[i + 2] # NL
               THEN StringEnd(line, i + 2) ELSE -1)
    ELSE StringEnd(line, i + 1)

NoMatch == [start |-> -1, end |-> -1]

\* SPACES_PAT.search(line, col)
SpacesSearch(line, col) ==
    LET hits == {s \in col..(Len(line) - 1) : IsSpaceChar(line[s + 1])}
    IN IF hits = {} THEN NoMatch
       ELSE [start |-> Min(hits), end |-> RunEnd(line, Min(hits), TRUE)]

\* STRING_PAT.search(line, col)
StringSearch(line, col) ==
    LET hits == {s \in col..(Len(line) - 1) :
                    line[s + 1] = "\"" /\ StringEnd(line, s + 1) >= 0}
    IN IF hits = {} THEN NoMatch
       ELSE [start |-> Min(hits), end |-> StringEnd(line, Min(hits) + 1)]

\* IDENTIFIER_PAT.search(line, col): \b looks at the character before the match,
\* also when it lies before col
IdentifierSearch(line, col) ==
    LET hits == {s \in col..(Len(line) - 1) :
                    IsIdStart(line[s + 1]) /\ (s = 0 \/ ~IsIdChar(line[s]))}
    IN IF hits = {} THEN NoMatch
       ELSE [start |-> Min(hits), end |-> RunEnd(line, Min(hits), FALSE)]

\* a literal entry: line.find(lit, col)
LiteralSearch(line, lit, col) ==
    LET s == Find(line, lit, col)
    IN IF s < 0 THEN NoMatch ELSE [start |-> s, end |-> s + Len(lit)]

\* the list of entries tried in non-comment mode, in order
LexEntries ==
    << [pat |-> "spaces", lit |-> <<>>, kind |-> PIECE_SPACES],
       [pat |-> "string", lit |-> <<>>, kind |-> PIECE_STRING],
       [pat |-> "identifier", lit |-> <<>>, kind |-> PIECE_IDENTIFIER],
       [pat |-> None, lit |-> <<"/", "*">>, kind |-> PIECE_COMMENT],
       [pat |-> None, lit |-> <<"/", "/">>, kind |-> PIECE_COMMENT],
       [pat |-> None, lit |-> <<"(">>, kind |-> PIECE_PAROPEN],
       [pat |-> None, lit |-> <<")">>, kind |-> PIECE_PARCLOSE],
       [pat |-> None, lit |-> <<",">>, kind |-> PIECE_COMMA] >>

EntrySearch(entry, line, col) ==
    IF entry.pat = "spaces" THEN SpacesSearch(line, col)
    ELSE IF entry.pat = "string" THEN StringSearch(line, col)
    ELSE IF entry.pat = "identifier" THEN IdentifierSearch(line, col)
    ELSE LiteralSearch(line, entry.lit, col)

\* the match of every entry of the list, in list order
EntryMatches(line, col) ==
    [i \in 1..Len(LexEntries) |-> EntrySearch(LexEntries[i], line, col)]

\* best and best_match after the for loop, for the matches m of the entries: the
\* first entry, in list order, with the least start ("best_start > start" replaces
\* only on a strictly smaller start; the break at start 0 skips entries that could
\* not win).  Entry 0 when nothing matches.
BestOf(m) ==
    IF \A i \in DOMAIN m : m[i].start < 0
    THEN [entry |-> 0, start |-> -1, end |-> -1]
    ELSE LET b == CHOOSE i \in DOMAIN m :
                    /\ m[i].start >= 0
                    /\ \A j \in DOMAIN m :
                          m[j].start < 0 \/ m[i].start < m[j].start
                          \/ (m[i].start = m[j].start /\ i <= j)
         IN [entry |-> b, start |-> m[b].start, end |-> m[b].end]

BestEntry(line, col) == BestOf(EntryMatches(line, col))

\* the block comment piece starting at column c, closed or running to the end of
\* the line
CommentIter(pos, line, r) ==
    [pieces |-> <<SubstrPiece(PIECE_COMMENT, pos, r.end - pos.column, line)>>,
     col |-> r.end, comment_mode |-> ~r.found]

\* the text before the best match, when there is any
TextBefore(pos, line, start) ==
    IF start > pos.column
    THEN <<SubstrPiece(PIECE_TEXT, pos, start - pos.column, line)>>
    ELSE <<>>

\* the piece of the best match bm, found at or after pos
MatchIter(pos, line, comment_mode, bm) ==
    IF LexEntries[bm.entry].lit = <<"/", "*">>
    THEN CommentIter(Position(pos.lineno, pos.fname, bm.start), line,
                     find_end_of_block_comment_piece(line, bm.start + 2))
    ELSE IF LexEntries[bm.entry].lit = <<"/", "/">>
    THEN [pieces |-> <<SubstrPiece(PIECE_COMMENT,
                                   Position(pos.lineno, pos.fname, bm.start),
                                   EndOfText(line) - bm.start, line)>>,
          col |-> EndOfText(line), comment_mode |-> comment_mode]
    ELSE [pieces |-> <<SubstrPiece(LexEntries[bm.entry].kind,
                                   Position(pos.lineno, pos.fname, bm.start),
                                   bm.end - bm.start, line)>>,
          col |-> bm.end, comment_mode |-> comment_mode]

\* the text before a piece and the piece
WithBefore(before, it) ==
    [pieces |-> before \o it.pieces, col |-> it.col, comment_mode |-> it.comment_mode]

BestIter(pos, line, comment_mode, bm) ==
    IF bm.entry = 0
    THEN [pieces |-> <<SubstrPiece(PIECE_TEXT, pos, EndOfText(line) - pos.column, line)>>,
          col |-> EndOfText(line), comment_mode |-> comment_mode]
    ELSE WithBefore(TextBefore(pos, line, bm.start),
                    MatchIter(pos, line, comment_mode, bm))

\* One iteration of "while col < len(line)": the pieces it yields, the new col and
\* the new comment_mode.
LexIter(fname, lineno, line, col, comment_mode) ==
    IF line[col + 1] = NL
    THEN [pieces |-> <<StrPiece(PIECE_EOL, Position(lineno, fname, col), <<NL>>)>>,
          col |-> col + 1, comment_mode |-> comment_mode]
    ELSE IF comment_mode
    THEN CommentIter(Position(lineno, fname, col), line,
                     find_end_of_block_comment_piece(line, col))
    ELSE BestIter(Position(lineno, fname, col), line, comment_mode,
                  BestEntry(line, col))

\* the EndOfFile piece yielded after all lines
EofPiece(fname, lineno) ==
    StrPiece(PIECE_EOF, Position(lineno, fname, 0),
             <<"E", "O", "F", "-", "E", "O", "F", "-", "E", "O", "F">>)

\* the loop over a line after one more iteration: the pieces yielded so far
\* followed by those of the iteration, and the iteration's col and comment_mode
LineRest(s, it) ==
    [pieces |-> s.pieces \o it.pieces, col |-> it.col, comment_mode |-> it.comment_mode]

RECURSIVE TokenizeFrom(_, _, _, _)
\* "while col < len(line)" from the loop state s on
TokenizeFrom(fname, lineno, line, s) ==
    IF s.col >= Len(line) THEN s
    ELSE TokenizeFrom(fname, lineno, line,
                      LineRest(s, LexIter(fname, lineno, line, s.col, s.comment_mode)))

\* the pieces of one line from column col on, and the comment_mode after it
TokenizeLine(fname, lineno, line, col, comment_mode) ==
    TokenizeFrom(fname, lineno, line,
                 [pieces |-> <<>>, col |-> col, comment_mode |-> comment_mode])

RECURSIVE TokenizeLines(_, _, _, _)
RECURSIVE TokenizeNext(_, _, _, _)
TokenizeLines(fname, lines, lineno, comment_mode) ==
    IF lineno > Len(lines) THEN <<EofPiece(fname, lineno)>>
    ELSE TokenizeNext(fname, lines, lineno,
                      TokenizeLine(fname, lineno, lines[lineno], 0, comment_mode))

\* the pieces of a line followed by those of the lines after it
TokenizeNext(fname, lines, lineno, l) ==
    l.pieces \o TokenizeLines(fname, lines, lineno + 1, l.comment_mode)

\* tokenize(fname) run to exhaustion: every piece it yields
tokenize(fname, data) == TokenizeLines(fname, line_stream_file(data), 1, FALSE)

-----------------------------------------------------------------------------
(* match2.py: the directive recognizer *)

kw_define == <<"d", "e", "f", "i", "n", "e">>
kw_include == <<"i", "n", "c", "l", "u", "d", "e">>
kw_endmacro == <<"e", "n", "d", "m", "a", "c", "r", "o">>
kw_glue == <<"g", "l", "u", "e">>

\* DefinePiece(), IncludePiece(), EndMacroPiece(): a fresh accumulator ("sequence")
DefinePiece ==
    [kind |-> "define", pos |-> NoPos, name |-> NoText, parameters |-> <<>>,
     content |-> <<>>, storeds |-> <<>>]
IncludePiece == [kind |-> "include", pos |-> NoPos, filename |-> NoText, storeds |-> <<>>]
EndMacroPiece == [kind |-> "endmacro", pos |-> NoPos, storeds |-> <<>>]

IsDirective(mixed) == mixed.kind \in {"define", "include", "endmacro"}

\* ESCAPES.get(c, c)
EscapeChar(c) == IF c = "n" THEN NL ELSE IF c = "t" THEN "\t" ELSE c

RECURSIVE UnescapeFrom(_, _, _)
UnescapeFrom(s, i, last) ==
    IF i >= last THEN <<>>
    ELSE IF s[i + 1] = "\\"
         THEN <<EscapeChar(s[i + 2])>> \o UnescapeFrom(s, i + 2, last)
         ELSE <<s[i + 1]>> \o UnescapeFrom(s, i + 1, last)

\* unescape(s): remove string escapes and surrounding quotes
unescape(s) == UnescapeFrom(s, 1, Len(s) - 1)

\* Edge(kind, text, goto, sequence_action, store)
Edge(kind, text, goto, sequence_action, store) ==
    [kind |-> kind, text |-> text, goto |-> goto,
     sequence_action |-> sequence_action, store |-> store]

\* the edge shapes the table uses
Stay(kind) == Edge(kind, NoText, NoState, None, None)
\* an edge whose text is the empty string instead of None
GotoEmptyText(kind, goto) == Edge(kind, <<>>, goto, None, None)
Goto(kind, goto) == Edge(kind, NoText, goto, None, None)
\* an edge to another line state that leaves the accumulator open
DiscardKeeping(kind, goto) == Edge(kind, NoText, goto, None, None)
Discard(kind, goto) == Edge(kind, NoText, goto, "discard", None)
DiscardText(text, goto) == Edge(PIECE_IDENTIFIER, text, goto, "discard", None)
Open(text, action, goto) == Edge(PIECE_IDENTIFIER, text, goto, action, "position")
Store(kind, store, goto) == Edge(kind, NoText, goto, None, store)

STATE1 == 1
STATE2 == 2
STATE11 == 11
STATE12 == 12
STATE13 == 13
STATE14 == 14
STATE15 == 15
STATE18 == 18
STATE21 == 21
STATE22 == 22
STATE28 == 28
STATE29 == 29
STATE31 == 31
STATE99 == 99

MatchState(state_num, expected_sequence, edges) ==
    [class |-> "MatchState", state_num |-> state_num,
     expected_sequence |-> expected_sequence, edges |-> edges, goto |-> NoState]

FinishState(state_num, expected_sequence, goto) ==
    [class |-> "FinishState", state_num |-> state_num,
     expected_sequence |-> expected_sequence, edges |-> <<>>, goto |-> goto]

\* an endmacro edge that goes on to the rest of the line without a record
EndMacroEdgePlain == Edge(PIECE_IDENTIFIER, kw_endmacro, STATE2, None, None)
EndMacroEdge == Open(kw_endmacro, "endmacro", STATE31)

STATES == <<
    MatchState(STATE1, "none", <<
        Goto(PIECE_COMMA, STATE2),
        Goto(PIECE_COMMENT, STATE2),
        Goto(PIECE_EOF, STATE99),
        Stay(PIECE_EOL),
        Open(kw_define, "define", STATE11),
        Open(kw_include, "include", STATE21),
        EndMacroEdge,
        Goto(PIECE_IDENTIFIER, STATE2),
        Goto(PIECE_PARCLOSE, STATE2),
        Goto(PIECE_PAROPEN, STATE2),
        Stay(PIECE_SPACES),
        Goto(PIECE_STRING, STATE2),
        Goto(PIECE_TEXT, STATE2) >>),
    FinishState(STATE31, "endmacro", STATE2),
    MatchState(STATE2, "none", <<
        Stay(PIECE_COMMA),
        Stay(PIECE_COMMENT),
        Goto(PIECE_EOF, STATE99),
        Goto(PIECE_EOL, STATE1),
        EndMacroEdge,
        Stay(PIECE_IDENTIFIER),
        Stay(PIECE_PARCLOSE),
        Stay(PIECE_PAROPEN),
        Stay(PIECE_SPACES),
        Stay(PIECE_STRING),
        Stay(PIECE_TEXT) >>),
    MatchState(STATE11, "define", <<
        Discard(PIECE_COMMA, STATE2),
        Discard(PIECE_COMMENT, STATE2),
        Discard(PIECE_EOF, STATE99),
        Discard(PIECE_EOL, STATE1),
        DiscardText(kw_define, STATE2),
        DiscardText(kw_include, STATE2),
        EndMacroEdge,
        Store(PIECE_IDENTIFIER, "name", STATE12),
        Discard(PIECE_PARCLOSE, STATE2),
        Discard(PIECE_PAROPEN, STATE2),
        Stay(PIECE_SPACES),
        Discard(PIECE_STRING, STATE2),
        Discard(PIECE_TEXT, STATE2) >>),
    MatchState(STATE12, "define", <<
        Discard(PIECE_COMMA, STATE2),
        Discard(PIECE_COMMENT, STATE2),
        Discard(PIECE_EOF, STATE99),
        Discard(PIECE_EOL, STATE1),
        EndMacroEdge,
        Discard(PIECE_IDENTIFIER, STATE2),
        Discard(PIECE_PARCLOSE, STATE2),
        Goto(PIECE_PAROPEN, STATE13),
        Stay(PIECE_SPACES),
        Discard(PIECE_STRING, STATE2),
        Discard(PIECE_TEXT, STATE2) >>),
    MatchState(STATE13, "define", <<
        Discard(PIECE_COMMA, STATE2),
        Discard(PIECE_COMMENT, STATE2),
        Discard(PIECE_EOF, STATE99),
        Discard(PIECE_EOL, STATE1),
        DiscardText(kw_define, STATE2),
        DiscardText(kw_include, STATE2),
        EndMacroEdge,
        Store(PIECE_IDENTIFIER, "parameter", STATE14),
        Goto(PIECE_PARCLOSE, STATE18),
        Discard(PIECE_PAROPEN, STATE2),
        Stay(PIECE_SPACES),
        Discard(PIECE_STRING, STATE2),
        Discard(PIECE_TEXT, STATE2) >>),
    MatchState(STATE14, "define", <<
        Goto(PIECE_COMMA, STATE15),
        Discard(PIECE_COMMENT, STATE2),
        Discard(PIECE_EOF, STATE99),
        Discard(PIECE_EOL, STATE1),
        EndMacroEdge,
        Discard(PIECE_IDENTIFIER, STATE2),
        Goto(PIECE_PARCLOSE, STATE18),
        Discard(PIECE_PAROPEN, STATE2),
        Stay(PIECE_SPACES),
        Discard(PIECE_STRING, STATE2),
        Discard(PIECE_TEXT, STATE2) >>),
    MatchState(STATE15, "define", <<
        Discard(PIECE_COMMA, STATE2),
        Discard(PIECE_COMMENT, STATE2),
        Discard(PIECE_EOF, STATE99),
        Discard(PIECE_EOL, STATE1),
        DiscardText(kw_define, STATE2),
        DiscardText(kw_include, STATE2),
        EndMacroEdge,
        Store(PIECE_IDENTIFIER, "parameter", STATE14),
        Discard(PIECE_PARCLOSE, STATE2),
        Discard(PIECE_PAROPEN, STATE2),
        Stay(PIECE_SPACES),
        Discard(PIECE_STRING, STATE2),
        Discard(PIECE_TEXT, STATE2) >>),
    FinishState(STATE18, "define", STATE2),
    MatchState(STATE21, "include", <<
        Discard(PIECE_COMMA, STATE2),
        Discard(PIECE_COMMENT, STATE2),
        Discard(PIECE_EOF, STATE99),
        Discard(PIECE_EOL, STATE1),
        EndMacroEdge,
        Discard(PIECE_IDENTIFIER, STATE2),
        Discard(PIECE_PARCLOSE, STATE2),
        Discard(PIECE_PAROPEN, STATE2),
        Stay(PIECE_SPACES),
        Store(PIECE_STRING, "filename", STATE22),
        Discard(PIECE_TEXT, STATE2) >>),
    MatchState(STATE22, "include", <<
        Discard(PIECE_COMMA, STATE2),
        Discard(PIECE_COMMENT, STATE2),
        Edge(PIECE_EOF, NoText, STATE29, "send", None),
        Goto(PIECE_EOL, STATE28),
        EndMacroEdge,
        Discard(PIECE_IDENTIFIER, STATE2),
        Discard(PIECE_PARCLOSE, STATE2),
        Discard(PIECE_PAROPEN, STATE2),
        Stay(PIECE_SPACES),
        Discard(PIECE_STRING, STATE2),
        Discard(PIECE_TEXT, STATE2) >>),
    FinishState(STATE28, "include", STATE1),
    FinishState(STATE29, "include", STATE99),
    FinishState(STATE99, "none", NoState) >>

\* setup_states: available_states[state_num]
StateOf(states, state_num) ==
    states[CHOOSE i \in 1..Len(states) : states[i].state_num = state_num]

available_states(state_num) == StateOf(STATES, state_num)

\* "edge.kind == piece.kind and edge.text is None or edge.text == piece.get_text()":
\* "and" binds tighter than "or"
EdgeMatches(edge, piece) ==
    (edge.kind = piece.kind /\ edge.text = NoText) \/ edge.text = piece.text

\* the index of the last matching edge instead of the first
SelEdgeLast(edges, piece) ==
    LET hits == {i \in 1..Len(edges) : EdgeMatches(edges[i], piece)}
    IN IF hits = {} THEN 0 ELSE CHOOSE i \in hits : \A j \in hits : j <= i

\* the index of the first matching edge, 0 if there is none ("assert sel_edge")
SelEdge(edges, piece) ==
    LET hits == {i \in 1..Len(edges) : EdgeMatches(edges[i], piece)}
    IN IF hits = {} THEN 0 ELSE Min(hits)

\* a store that accepts a parameter whatever the stored ones are
StoreEndUnchecked(sequence, piece, where) ==
    IF sequence = NoPiece THEN "assert"
    ELSE IF where = "position" THEN "ok"
    ELSE IF sequence.kind = "define" /\ where \in {"name", "parameter"} THEN "ok"
    ELSE IF sequence.kind = "include" /\ where = "filename" THEN "ok"
    ELSE "assert"

\* how sequence.store(piece, where) ends: "ok", "dup" when DefinePiece.store reports
\* a parameter listed more than once, "assert" for a slot the accumulator lacks
StoreEnd(sequence, piece, where) ==
    IF sequence = NoPiece THEN "assert"
    ELSE IF where = "position" THEN "ok"
    ELSE IF sequence.kind = "define" /\ where = "name" THEN "ok"
    ELSE IF sequence.kind = "define" /\ where = "parameter"
         THEN IF \E i \in 1..Len(sequence.parameters) :
                    sequence.parameters[i].text = piece.text
              THEN "dup" ELSE "ok"
    ELSE IF sequence.kind = "include" /\ where = "filename" THEN "ok"
    ELSE "assert"

\* sequence.store(piece, where): the accumulator after a store that ends "ok"
SequenceStore(sequence, piece, where) ==
    IF where = "position" THEN [sequence EXCEPT !.pos = piece.pos]
    ELSE IF where = "name" THEN [sequence EXCEPT !.name = piece.text]
    ELSE IF where = "parameter" THEN [sequence EXCEPT !.parameters = Append(@, piece)]
    ELSE [sequence EXCEPT !.filename = unescape(piece.text)]

\* the first stored parameter with the text of piece (the p of the error report)
DupParameter(sequence, piece) ==
    sequence.parameters[Min({i \in 1..Len(sequence.parameters) :
                                sequence.parameters[i].text = piece.text})]

\* the kind of accumulator verify_expected_sequence accepts
SequenceKind(sequence) == IF sequence = NoPiece THEN "none" ELSE sequence.kind

\* a turn that drops the pieces buffered in an accumulator that is replaced
MatchEdgeNoFlush(cur_state, sel_edge, sequence, piece) ==
    LET action == sel_edge.sequence_action
        opens == action \in {"define", "include", "endmacro", "discard"}
        flushed == <<>>
        seq1 == IF action = "define" THEN DefinePiece
                ELSE IF action = "include" THEN IncludePiece
                ELSE IF action = "endmacro" THEN EndMacroPiece
                ELSE IF action = "discard" THEN NoPiece
                ELSE sequence
        force_send == action = "send"
        stores == ~force_send /\ seq1 # NoPiece
        seq2 == IF stores THEN [seq1 EXCEPT !.storeds = Append(@, piece)] ELSE seq1
        sent == IF stores THEN <<>> ELSE <<piece>>
        stored == IF sel_edge.store = None THEN "ok"
                  ELSE StoreEnd(seq2, piece, sel_edge.store)
        next == IF sel_edge.goto # NoState THEN sel_edge.goto ELSE cur_state.state_num
    IN
    IF stored = "dup"
    THEN [yields |-> flushed \o sent, sequence |-> seq2, state |-> cur_state.state_num,
          end |-> "dup", dup |-> <<piece.pos, DupParameter(seq2, piece).pos>>]
    ELSE IF stored = "assert"
    THEN [yields |-> flushed \o sent, sequence |-> seq2, state |-> cur_state.state_num,
          end |-> "assert", dup |-> <<>>]
    ELSE [yields |-> flushed \o sent,
          sequence |-> IF sel_edge.store = None THEN seq2
                       ELSE SequenceStore(seq2, piece, sel_edge.store),
          state |-> next, end |-> "ok", dup |-> <<>>]

\* One turn of a MatchState on one piece: the items yielded, the new accumulator,
\* the next state, and how the turn ended ("ok", "dup", "assert").
MatchEdge(cur_state, sel_edge, sequence, piece) ==
    LET action == sel_edge.sequence_action
        opens == action \in {"define", "include", "endmacro", "discard"}
        flushed == IF opens /\ sequence # NoPiece THEN sequence.storeds ELSE <<>>
        seq1 == IF action = "define" THEN DefinePiece
                ELSE IF action = "include" THEN IncludePiece
                ELSE IF action = "endmacro" THEN EndMacroPiece
                ELSE IF action = "discard" THEN NoPiece
                ELSE sequence
        force_send == action = "send"
        stores == ~force_send /\ seq1 # NoPiece
        seq2 == IF stores THEN [seq1 EXCEPT !.storeds = Append(@, piece)] ELSE seq1
        sent == IF stores THEN <<>> ELSE <<piece>>
        stored == IF sel_edge.store = None THEN "ok"
                  ELSE StoreEnd(seq2, piece, sel_edge.store)
        next == IF sel_edge.goto # NoState THEN sel_edge.goto ELSE cur_state.state_num
    IN
    IF stored = "dup"
    THEN [yields |-> flushed \o sent, sequence |-> seq2, state |-> cur_state.state_num,
          end |-> "dup", dup |-> <<piece.pos, DupParameter(seq2, piece).pos>>]
    ELSE IF stored = "assert"
    THEN [yields |-> flushed \o sent, sequence |-> seq2, state |-> cur_state.state_num,
          end |-> "assert", dup |-> <<>>]
    ELSE [yields |-> flushed \o sent,
          sequence |-> IF sel_edge.store = None THEN seq2
                       ELSE SequenceStore(seq2, piece, sel_edge.store),
          state |-> next, end |-> "ok", dup |-> <<>>]

\* the first matching edge decides; none is a failed assertion
MatchPiece(cur_state, sequence, piece) ==
    IF SelEdge(cur_state.edges, piece) = 0
    THEN [yields |-> <<>>, sequence |-> sequence, state |-> cur_state.state_num,
          end |-> "assert", dup |-> <<>>]
    ELSE MatchEdge(cur_state, cur_state.edges[SelEdge(cur_state.edges, piece)],
                   sequence, piece)

\* a FinishState that yields the accumulator and stays where it is
MatchFinishStay(cur_state, sequence) ==
    [yields |-> IF sequence # NoPiece THEN <<sequence>> ELSE <<>>,
     sequence |-> NoPiece, state |-> cur_state.state_num, end |-> "ok", dup |-> <<>>]

\* One turn of a FinishState: it yields the accumulator, clears it and goes on.
MatchFinish(cur_state, sequence) ==
    [yields |-> IF sequence # NoPiece THEN <<sequence>> ELSE <<>>,
     sequence |-> NoPiece, state |-> cur_state.goto, end |-> "ok", dup |-> <<>>]

\* match_sequence(stream) at its start: the pieces of the stream, the index of the
\* one next(stream) returns next, cur_state, the accumulator, and what it yielded.
\* end tells how it stands: "run", or
\*   "stop"    the machine halted and next(stream) raised StopIteration,
\*   "early"   the machine halted with pieces left ("Sequence detection ended too early!"),
\*   "starved" next(stream) raised StopIteration in a MatchState,
\*   "dup"     report_error of a duplicate parameter, "assert" a failed assertion.
MatchStart(pieces) ==
    [pieces |-> pieces, at |-> 1, state_num |-> STATE1, sequence |-> NoPiece,
     items |-> <<>>, end |-> "run", dup |-> <<>>]

\* the machine m after the turn t that leaves the next piece at index j
AfterTurn(m, t, j) ==
    IF t.end # "ok"
    THEN [m EXCEPT !.items = @ \o t.yields, !.end = t.end, !.dup = t.dup]
    ELSE [m EXCEPT !.items = @ \o t.yields, !.state_num = t.state,
                   !.sequence = t.sequence, !.at = j]

\* the machine in state cur_state: verify_expected_sequence, then one turn
TurnIn(m, cur_state) ==
    IF SequenceKind(m.sequence) # cur_state.expected_sequence
    THEN [m EXCEPT !.end = "assert"]
    ELSE IF cur_state.class = "MatchState" /\ m.at > Len(m.pieces)
    THEN [m EXCEPT !.end = "starved"]
    ELSE AfterTurn(m,
                   IF cur_state.class = "MatchState"
                   THEN MatchPiece(cur_state, m.sequence, m.pieces[m.at])
                   ELSE MatchFinish(cur_state, m.sequence),
                   IF cur_state.class = "MatchState" THEN m.at + 1 ELSE m.at)

\* one turn of "while cur_state is not None", or the statements after the loop
Turn(m) ==
    IF m.state_num = NoState
    THEN [m EXCEPT !.end = IF m.at > Len(m.pieces) THEN "stop" ELSE "early"]
    ELSE TurnIn(m, available_states(m.state_num))

RECURSIVE MatchRun(_)
MatchRun(m) == IF m.end # "run" THEN m ELSE MatchRun(Turn(m))

\* match_sequence(stream) run to exhaustion: every item it yields and how it ends
match_sequence(pieces) == MatchRun(MatchStart(pieces))

-----------------------------------------------------------------------------
(* report.py: positions and the reporting sink *)

\* the characters of file names in code-point order, for comparing file names
CharOrder ==
    <<".", "0", "1", "2", "3", "4", "5", "6", "7", "8", "9",
      "A", "B", "C", "D", "E", "F", "G", "H", "I", "J", "K", "L", "M",
      "N", "O", "P", "Q", "R", "S", "T", "U", "V", "W", "X", "Y", "Z", "_",
      "a", "b", "c", "d", "e", "f", "g", "h", "i", "j", "k", "l", "m",
      "n", "o", "p", "q", "r", "s", "t", "u", "v", "w", "x", "y", "z">>

CharRank(c) ==
    IF \E i \in 1..Len(CharOrder) : CharOrder[i] = c
    THEN CHOOSE i \in 1..Len(CharOrder) : CharOrder[i] = c
    ELSE 0

RECURSIVE TextLess(_, _)
\* str.__lt__
TextLess(a, b) ==
    IF b = <<>> THEN FALSE
    ELSE IF a = <<>> THEN TRUE
    ELSE IF CharRank(Head(a)) # CharRank(Head(b)) THEN CharRank(Head(a)) < CharRank(Head(b))
    ELSE TextLess(Tail(a), Tail(b))

\* Position.__lt__ (file names and columns are never None here)
PositionLess(self, other) ==
    IF self.fname # other.fname THEN TextLess(self.fname, other.fname)
    ELSE IF self.lineno # other.lineno THEN self.lineno < other.lineno
    ELSE IF self.column # other.column THEN self.column < other.column
    ELSE FALSE

RECURSIVE InsertPosition(_, _)
InsertPosition(sorted, pos) ==
    IF sorted = <<>> THEN <<pos>>
    ELSE IF PositionLess(pos, Head(sorted)) THEN <<pos>> \o sorted
    ELSE <<Head(sorted)>> \o InsertPosition(Tail(sorted), pos)

RECURSIVE SortPositions(_)
\* lines.sort(): a stable sort by Position.__lt__
SortPositions(lines) ==
    IF lines = <<>> THEN <<>>
    ELSE InsertPosition(SortPositions(SubSeq(lines, 1, Len(lines) - 1)), lines[Len(lines)])

RECURSIVE unduplicate(_)
\* unduplicate(lines): drop an entry equal to the one before it
unduplicate(lines) ==
    IF Len(lines) <= 1 THEN lines
    ELSE LET front == unduplicate(SubSeq(lines, 1, Len(lines) - 1))
         IN IF lines[Len(lines)] = front[Len(front)] THEN front
            ELSE Append(front, lines[Len(lines)])

\* report_error(lines, mesg, type): what is printed; an 'error' then exits
report_error(lines, mesg, type) ==
    [type |-> type, mesg |-> mesg, lines |-> unduplicate(SortPositions(lines))]

-----------------------------------------------------------------------------
(* match2.py: read_file, the definition harvester and include resolver *)

MAX_INCLUDE_LEVEL == 10

IsWhite(piece) == piece.kind \in {PIECE_SPACES, PIECE_EOL}

\* an "if" in the place of the "while": at most one piece is deleted
StripTrailingOne(pieces) ==
    IF pieces # <<>> /\ IsWhite(pieces[Len(pieces)])
    THEN SubSeq(pieces, 1, Len(pieces) - 1)
    ELSE pieces

RECURSIVE StripTrailing(_)
\* "while len(l) > 0 and l[-1].kind in (SPACES, EOL): del l[-1]"
StripTrailing(pieces) ==
    IF pieces # <<>> /\ IsWhite(pieces[Len(pieces)])
    THEN StripTrailing(SubSeq(pieces, 1, Len(pieces) - 1))
    ELSE pieces

\* the test one include too late
TooManyIncludesLate(includes) == Len(includes) > MAX_INCLUDE_LEVEL

\* "if len(includes) >= MAX_INCLUDE_LEVEL"
TooManyIncludes(includes) == Len(includes) >= MAX_INCLUDE_LEVEL

\* a read_file generator at its start: its match_sequence(tokenize(fname)), the
\* index in items of the item its for-loop is at, current_def and the include stack
ReaderOf(fname, m, includes) ==
    [fname |-> fname, pieces |-> m.pieces, at |-> m.at, state_num |-> m.state_num,
     sequence |-> m.sequence, items |-> m.items, end |-> m.end, dup |-> m.dup,
     idx |-> 1, current_def |-> NoPiece, includes |-> includes]

NewReader(fname, data, includes) ==
    ReaderOf(fname, MatchStart(tokenize(fname, data)), includes)

\* dict assignment: d[key] = value
DictSet(d, key, value) ==
    [k \in DOMAIN d \cup {key} |-> IF k = key THEN value ELSE d[k]]

EmptyDict == [k \in {} |-> NoPiece]

\* the generator that StreamGetter.get() resumes, and the item its for-loop is at
Reader == readers[Len(readers)]
ReaderHasItem == Reader.idx <= Len(Reader.items)
Mixed == Reader.items[Reader.idx]

\* StreamGetter.get() is waiting for read_file to yield
Pulling ==
    /\ status = "running"
    /\ readers # <<>>
    /\ inbox = <<>>
    /\ estack # <<>>
    /\ estack[Len(estack)].kind = "top"
    /\ estack[Len(estack)].mode # "call"

Advance(rs) == [rs EXCEPT ![Len(rs)].idx = @ + 1]

Fatal(lines, mesg) ==
    /\ reports' = Append(reports, report_error(lines, mesg, "error"))
    /\ status' = "fatal"

\* an uncaught exception ends the run
Crash(exception) ==
    /\ reports' = Append(reports, [type |-> "exception", mesg |-> exception, lines |-> <<>>])
    /\ status' = "crash"

ExpanderUnchanged == UNCHANGED <<tok, files, pep479, estack, expand_nesting, output>>

\* the for-loop of read_file resumes match_sequence, which takes one turn of its loop
MatchTurn ==
    /\ Pulling /\ ~ReaderHasItem /\ Reader.end = "run"
    /\ readers' = [readers EXCEPT ![Len(readers)] = Turn(Reader)]
    /\ UNCHANGED <<macro_definitions, inbox, status, reports>>
    /\ ExpanderUnchanged

\* "if isinstance(mixed, DefinePiece)"
ReadDefine ==
    /\ Pulling /\ ReaderHasItem /\ Mixed.kind = "define"
    /\ IF Reader.current_def # NoPiece
       THEN /\ Fatal(<<Mixed.pos, Reader.current_def.pos>>,
                     "Cannot define a nested macro, perhaps a missing 'endmacro'?")
            /\ UNCHANGED readers
       ELSE /\ reports' =
                  IF Mixed.name \in DOMAIN macro_definitions
                  THEN Append(reports,
                              report_error(<<Mixed.pos, macro_definitions[Mixed.name].pos>>,
                                           "Macro is already defined, overwriting the previous definirion!",
                                           "warning"))
                  ELSE reports
            /\ readers' = [Advance(readers) EXCEPT ![Len(readers)].current_def = Mixed]
            /\ UNCHANGED status
    /\ UNCHANGED <<macro_definitions, inbox>>
    /\ ExpanderUnchanged

\* a test that lets an include pass inside a definition
InDefinitionNever(current_def) == FALSE

\* "if current_def is not None" of the IncludePiece branch
InDefinition(current_def) == current_def # NoPiece

\* "elif isinstance(mixed, IncludePiece)": the nested read_file starts with the
\* include stack extended by copy; opening a missing file raises
ReadInclude ==
    /\ Pulling /\ ReaderHasItem /\ Mixed.kind = "include"
    /\ IF InDefinition(Reader.current_def)
       THEN /\ Fatal(<<Mixed.pos>>, "Cannot include a file in a macro definition")
            /\ UNCHANGED readers
       ELSE IF TooManyIncludes(Reader.includes)
       THEN /\ Fatal(<<Mixed.pos>>, "Too many includes (infinite recursion?)")
            /\ UNCHANGED readers
       ELSE IF Mixed.filename \notin DOMAIN files
       THEN /\ Crash("FileNotFoundError")
            /\ UNCHANGED readers
       ELSE /\ readers' = Append(Advance(readers),
                                 NewReader(Mixed.filename, files[Mixed.filename],
                                           Append(Reader.includes, Mixed)))
            /\ UNCHANGED <<status, reports>>
    /\ UNCHANGED <<macro_definitions, inbox>>
    /\ ExpanderUnchanged

\* "elif isinstance(mixed, EndMacroPiece)"
ReadEndMacro ==
    /\ Pulling /\ ReaderHasItem /\ Mixed.kind = "endmacro"
    /\ IF Reader.current_def = NoPiece
       THEN /\ Fatal(<<Mixed.pos>>, "Found 'endmacro' keyword without matching 'define'")
            /\ UNCHANGED <<readers, macro_definitions>>
       ELSE /\ macro_definitions' =
                  DictSet(macro_definitions, Reader.current_def.name,
                          [Reader.current_def EXCEPT !.content = StripTrailing(@)])
            /\ readers' = [Advance(readers) EXCEPT ![Len(readers)].current_def = NoPiece]
            /\ UNCHANGED <<status, reports>>
    /\ UNCHANGED inbox
    /\ ExpanderUnchanged

\* "else": an ordinary piece, passed on or saved in the definition
ReadPiece ==
    /\ Pulling /\ ReaderHasItem /\ ~IsDirective(Mixed)
    /\ IF Reader.current_def = NoPiece
       THEN /\ inbox' = <<Mixed>>
            /\ readers' = Advance(readers)
            /\ UNCHANGED <<status, reports>>
       ELSE IF IsWhite(Mixed) /\ Reader.current_def.content = <<>>
       THEN /\ readers' = Advance(readers)
            /\ UNCHANGED <<inbox, status, reports>>
       ELSE IF Mixed.kind = PIECE_EOF
       THEN /\ Fatal(<<Mixed.pos, Reader.current_def.pos>>,
                     "Encountered end of file while reading a macro definition, perhaps a missing 'endmacro'?")
            /\ UNCHANGED <<inbox, readers>>
       ELSE /\ readers' = [Advance(readers) EXCEPT
                              ![Len(readers)].current_def.content = Append(@, Mixed)]
            /\ UNCHANGED <<inbox, status, reports>>
    /\ UNCHANGED macro_definitions
    /\ ExpanderUnchanged

\* match_sequence ended by an error of its own: a duplicate parameter is reported
\* (fatal), an assertion fails
ReadMatchError ==
    /\ Pulling /\ ~ReaderHasItem /\ Reader.end \notin {"run", "stop"}
    /\ IF Reader.end = "dup"
       THEN Fatal(Reader.dup, "Macro definition parameter is listed more than once")
       ELSE Crash("AssertionError")
    /\ UNCHANGED <<readers, macro_definitions, inbox>>
    /\ ExpanderUnchanged

\* match_sequence halted at STATE99 and its final next(stream) raised StopIteration
\* inside the generator.  Before Python 3.7 that ends the generator: the for-loop
\* of read_file ends, read_file returns to the read_file that included it, or, at
\* the outermost level, StreamGetter.get() returns None.
ReadReturn ==
    /\ Pulling /\ ~ReaderHasItem /\ Reader.end = "stop"
    /\ ~pep479
    /\ readers' = SubSeq(readers, 1, Len(readers) - 1)
    /\ inbox' = IF Len(readers) = 1 THEN <<NoPiece>> ELSE inbox
    /\ UNCHANGED <<macro_definitions, status, reports>>
    /\ ExpanderUnchanged

\* The same StopIteration from Python 3.7 on (PEP 479): it becomes a RuntimeError
\* that no caller catches.
ReadGeneratorStop ==
    /\ Pulling /\ ~ReaderHasItem /\ Reader.end = "stop"
    /\ pep479
    /\ Crash("RuntimeError: generator raised StopIteration")
    /\ UNCHANGED <<readers, macro_definitions, inbox>>
    /\ ExpanderUnchanged

-----------------------------------------------------------------------------
(* expand.py: the expander *)

MAX_EXPAND_LEVEL == 10

\* "first_close = None"
NoIndex == -1

\* An expand_stream generator.  kind tells who runs it: "top" is the one main.run
\* iterates (its getter is the StreamGetter), "arg" expands one argument of a call
\* into a list, "body" expands a macro's content for its caller (yield from).
\* elements and index are its ListGetter; mode is where its code stands:
\*   "scan"   at getter.get() in expand_stream,
\*   "open"   at getter.get() in find_arguments, looking for "(",
\*   "arg"    at getter.get() in store_argument,
\*   "nested" at getter.get() in store_til_matching_close,
\*   "call"   waiting for the expand_stream of an argument or of the content.
\* Three fields record history for the properties: mark is the number of pieces its
\* destination held when the current call began, depth the length of expand_nesting
\* then, and raw the pieces find_arguments read after the "(" of the call.
Activation(kind, elements, parameter_values) ==
    [kind |-> kind, elements |-> elements, index |-> -1,
     parameter_values |-> parameter_values, mode |-> "scan",
     macro_call |-> NoPiece, macro_def |-> NoPiece,
     arguments |-> <<>>, argument |-> <<>>, first_close |-> NoIndex,
     strip_leading |-> TRUE, level |-> 0,
     arg_table |-> EmptyDict, acc |-> <<>>, mark |-> 0, depth |-> 0, raw |-> <<>>]

Top == estack[Len(estack)]

\* getter.get() can return
CanGet ==
    /\ status = "running"
    /\ estack # <<>>
    /\ Top.mode # "call"
    /\ Top.kind = "top" => inbox # <<>>

\* what getter.get() returns: StreamGetter.get() for the top generator,
\* ListGetter.get() for the others
Got ==
    IF Top.kind = "top" THEN inbox[1]
    ELSE IF Top.index + 1 >= Len(Top.elements) THEN NoPiece
    ELSE Top.elements[Top.index + 2]

\* the getter after the get()
AfterGet(stack) ==
    IF stack[Len(stack)].kind = "top" THEN stack
    ELSE [stack EXCEPT ![Len(stack)].index = @ + 1]

\* the index of the generator whose list receives what generator i yields: the
\* nearest "arg" generator at or below i, or 0 for main.run
Destination(stack, i) ==
    LET args == {j \in 1..i : stack[j].kind = "arg"}
    IN IF args = {} THEN 0 ELSE CHOOSE j \in args : \A k \in args : k <= j

\* the pieces generator i has delivered so far to its destination
Delivered(stack, out, i) ==
    IF Destination(stack, i) = 0 THEN out ELSE stack[Destination(stack, i)].acc

\* "yield piece" / "yield from pieces" by the innermost generator
YieldStack(stack, pieces) ==
    LET d == Destination(stack, Len(stack))
    IN IF d = 0 THEN stack ELSE [stack EXCEPT ![d].acc = @ \o pieces]

YieldOutput(stack, pieces) ==
    IF Destination(stack, Len(stack)) = 0 THEN output \o pieces ELSE output

Yield(stack, pieces) ==
    /\ estack' = YieldStack(stack, pieces)
    /\ output' = YieldOutput(stack, pieces)

HarvesterUnchanged == UNCHANGED <<tok, files, pep479, readers, macro_definitions>>

ConsumeInbox == inbox' = IF Top.kind = "top" THEN <<>> ELSE inbox

IsMacroName(name) == name \in DOMAIN macro_definitions

\* expand_stream decides that an identifier starts a call: it names a definition,
\* or it is 'glue'
StartsCall(name) == IsMacroName(name) \/ name = kw_glue

\* a lookup of the bindings that comes after the lookup of the macros
IsParameterUnlessCall(parameter_values, name) ==
    name \in DOMAIN parameter_values /\ ~StartsCall(name)

\* "arg_value = parameter_values.get(name)": "arg_value is not None"
IsParameter(parameter_values, name) == name \in DOMAIN parameter_values

\* "if piece.kind != ast.PIECE_IDENTIFIER: yield piece", and an identifier that is
\* neither a parameter nor a macro nor 'glue'
ExpandForward ==
    /\ CanGet /\ Top.mode = "scan" /\ Got # NoPiece
    /\ \/ Got.kind # PIECE_IDENTIFIER
       \/ /\ ~IsParameter(Top.parameter_values, Got.text)
          /\ ~StartsCall(Got.text)
    /\ Yield(AfterGet(estack), <<Got>>)
    /\ ConsumeInbox
    /\ UNCHANGED <<expand_nesting, status, reports>>
    /\ HarvesterUnchanged

\* "arg_value = parameter_values.get(name) ... yield from arg_value"
ExpandParameter ==
    /\ CanGet /\ Top.mode = "scan" /\ Got # NoPiece
    /\ Got.kind = PIECE_IDENTIFIER
    /\ IsParameter(Top.parameter_values, Got.text)
    /\ Yield(AfterGet(estack), Top.parameter_values[Got.text])
    /\ ConsumeInbox
    /\ UNCHANGED <<expand_nesting, status, reports>>
    /\ HarvesterUnchanged

\* "Found a proper macro definition or magic 'glue'": find_arguments begins
ExpandCall ==
    /\ CanGet /\ Top.mode = "scan" /\ Got # NoPiece
    /\ Got.kind = PIECE_IDENTIFIER
    /\ ~IsParameter(Top.parameter_values, Got.text)
    /\ StartsCall(Got.text)
    /\ estack' = [AfterGet(estack) EXCEPT
                     ![Len(estack)].mode = "open",
                     ![Len(estack)].macro_call = Got,
                     ![Len(estack)].macro_def =
                         IF IsMacroName(Got.text) THEN macro_definitions[Got.text]
                         ELSE NoPiece,
                     ![Len(estack)].mark = Len(Delivered(estack, output, Len(estack))),
                     ![Len(estack)].depth = Len(expand_nesting),
                     ![Len(estack)].raw = <<>>]
    /\ ConsumeInbox
    /\ UNCHANGED <<expand_nesting, output, status, reports>>
    /\ HarvesterUnchanged

\* find_arguments reports through macro_def.name: for 'glue' macro_def is None and
\* the attribute access raises
ArgumentsError(mesg) ==
    IF Top.macro_def = NoPiece
    THEN Crash("AttributeError: 'NoneType' object has no attribute 'name'")
    ELSE Fatal(<<Top.macro_call.pos>>, mesg)

\* find_arguments, "Find opening parenthesis"
FindOpen ==
    /\ CanGet /\ Top.mode = "open"
    /\ IF Got # NoPiece /\ Got.kind = PIECE_SPACES
       THEN /\ estack' = AfterGet(estack)
            /\ ConsumeInbox
            /\ UNCHANGED <<status, reports>>
       ELSE IF Got # NoPiece /\ Got.kind = PIECE_PAROPEN
       THEN /\ estack' = [AfterGet(estack) EXCEPT
                             ![Len(estack)].mode = "arg",
                             ![Len(estack)].arguments = <<>>,
                             ![Len(estack)].argument = <<>>,
                             ![Len(estack)].first_close = NoIndex,
                             ![Len(estack)].strip_leading = TRUE]
            /\ ConsumeInbox
            /\ UNCHANGED <<status, reports>>
       ELSE /\ ArgumentsError("Missing open parentheses for macro call")
            /\ UNCHANGED <<estack, inbox>>
    /\ UNCHANGED <<expand_nesting, output>>
    /\ HarvesterUnchanged

\* store_argument and store_til_matching_close: the input ends, or an EndOfFile
\* piece arrives ('no-input', 'eof')
ArgumentsEnd ==
    /\ CanGet /\ Top.mode \in {"arg", "nested"}
    /\ Got = NoPiece \/ Got.kind = PIECE_EOF
    /\ ArgumentsError("Missing closing parentheses for macro call")
    /\ UNCHANGED <<estack, inbox, expand_nesting, output>>
    /\ HarvesterUnchanged

\* store_argument: "Store pieces, while stripping leading unprotected whitespace",
\* and the call of store_til_matching_close at a "("
StoreArgument ==
    /\ CanGet /\ Top.mode = "arg" /\ Got # NoPiece
    /\ Got.kind \notin {PIECE_EOF, PIECE_COMMA, PIECE_PARCLOSE}
    /\ LET keeps == ~Top.strip_leading \/ ~IsWhite(Got)
       IN estack' = [AfterGet(estack) EXCEPT
                        ![Len(estack)].raw = Append(@, Got),
                        ![Len(estack)].argument = IF keeps THEN Append(@, Got) ELSE @,
                        ![Len(estack)].strip_leading = IF keeps THEN FALSE ELSE @,
                        ![Len(estack)].mode =
                            IF Got.kind = PIECE_PAROPEN THEN "nested" ELSE @,
                        ![Len(estack)].level = IF Got.kind = PIECE_PAROPEN THEN 1 ELSE @]
    /\ ConsumeInbox
    /\ UNCHANGED <<expand_nesting, output, status, reports>>
    /\ HarvesterUnchanged

\* a level that an opening parenthesis does not raise
NestedLevelFlat(level, piece) ==
    IF piece.kind = PIECE_PARCLOSE THEN level - 1 ELSE level

\* "if piece.kind == ast.PIECE_PAROPEN: level = level + 1
\*  elif piece.kind == ast.PIECE_PARCLOSE: level = level - 1"
NestedLevel(level, piece) ==
    IF piece.kind = PIECE_PAROPEN THEN level + 1
    ELSE IF piece.kind = PIECE_PARCLOSE THEN level - 1
    ELSE level

\* store_til_matching_close: one turn of "while level > 0"; at level 0 it returns
\* to store_argument, which notes the first closing parenthesis
StoreNested ==
    /\ CanGet /\ Top.mode = "nested" /\ Got # NoPiece /\ Got.kind # PIECE_EOF
    /\ LET level == NestedLevel(Top.level, Got)
       IN estack' = [AfterGet(estack) EXCEPT
                        ![Len(estack)].raw = Append(@, Got),
                        ![Len(estack)].argument = Append(@, Got),
                        ![Len(estack)].level = level,
                        ![Len(estack)].mode = IF level > 0 THEN "nested" ELSE "arg",
                        ![Len(estack)].first_close =
                            IF level = 0 /\ @ = NoIndex THEN Len(Top.argument) ELSE @]
    /\ ConsumeInbox
    /\ UNCHANGED <<expand_nesting, output, status, reports>>
    /\ HarvesterUnchanged

\* an unwrap that looks at the last piece only, not at where the first group closed
ClosedArgumentAnyClose(argument, first_close) ==
    LET a == StripTrailing(argument)
    IN IF first_close # NoIndex /\ a[1].kind = PIECE_PAROPEN
          /\ a[Len(a)].kind = PIECE_PARCLOSE
       THEN [argpieces |-> SubSeq(a, 2, Len(a) - 1), stripped |-> TRUE]
       ELSE [argpieces |-> a, stripped |-> FALSE]

\* store_argument without "strip unprotected trailing whitespace"
ClosedArgumentUnstripped(argument, first_close) ==
    IF first_close # NoIndex /\ argument[1].kind = PIECE_PAROPEN
       /\ Len(argument) - 1 = first_close
    THEN [argpieces |-> SubSeq(argument, 2, Len(argument) - 1), stripped |-> TRUE]
    ELSE [argpieces |-> argument, stripped |-> FALSE]

\* store_argument at a "," or ")": "End reached, strip unprotected trailing
\* whitespace", then "If argument had parentheses around the entire argument,
\* drop them": the (argpieces, stripped) it returns
ClosedArgument(argument, first_close) ==
    LET a == StripTrailing(argument)
    IN IF first_close # NoIndex /\ a[1].kind = PIECE_PAROPEN /\ Len(a) - 1 = first_close
       THEN [argpieces |-> SubSeq(a, 2, Len(a) - 1), stripped |-> TRUE]
       ELSE [argpieces |-> a, stripped |-> FALSE]

\* the empty-call test without "and not stripped"
FoundArgumentsUnlessEmpty(arguments, closed) ==
    IF Len(arguments) = 0 /\ Len(closed.argpieces) = 0
    THEN arguments
    ELSE Append(arguments, closed.argpieces)

\* find_arguments at the closing parenthesis: the argument list it returns
FoundArguments(arguments, closed) ==
    IF Len(arguments) = 0 /\ Len(closed.argpieces) = 0 /\ ~closed.stripped
    THEN arguments
    ELSE Append(arguments, closed.argpieces)

\* find_arguments at a ",": the argument joins the list, the next one begins
ArgumentComma ==
    /\ CanGet /\ Top.mode = "arg" /\ Got # NoPiece /\ Got.kind = PIECE_COMMA
    /\ estack' = [AfterGet(estack) EXCEPT
                     ![Len(estack)].arguments =
                         Append(@, ClosedArgument(Top.argument, Top.first_close).argpieces),
                     ![Len(estack)].raw = Append(@, Got),
                     ![Len(estack)].argument = <<>>,
                     ![Len(estack)].first_close = NoIndex,
                     ![Len(estack)].strip_leading = TRUE]
    /\ ConsumeInbox
    /\ UNCHANGED <<expand_nesting, output, status, reports>>
    /\ HarvesterUnchanged

\* find_arguments returns: the getter delivered the closing parenthesis of the call
AtCallEnd == CanGet /\ Top.mode = "arg" /\ Got # NoPiece /\ Got.kind = PIECE_PARCLOSE

\* the list without the argument that the closing parenthesis ends
CallArgumentsShort == Top.arguments

CallArguments ==
    FoundArguments(Top.arguments, ClosedArgument(Top.argument, Top.first_close))

\* "text = ''.join(p.get_text() for argval in arguments for p in argval)"
GlueText(arguments) ==
    Concat([i \in 1..Len(arguments) |-> Concat(Texts(arguments[i]))])

\* "Magic glue!"
CallGlue ==
    /\ AtCallEnd /\ Top.macro_def = NoPiece
    /\ Yield([AfterGet(estack) EXCEPT ![Len(estack)].mode = "scan",
                                      ![Len(estack)].arguments = CallArguments],
             <<StrPiece(PIECE_TEXT, Top.macro_call.pos, GlueText(CallArguments))>>)
    /\ ConsumeInbox
    /\ UNCHANGED <<expand_nesting, status, reports>>
    /\ HarvesterUnchanged

\* "if len(macro_def.parameters) != len(arguments)"
CallArityError ==
    /\ AtCallEnd /\ Top.macro_def # NoPiece
    /\ Len(Top.macro_def.parameters) # Len(CallArguments)
    /\ Fatal(<<Top.macro_def.pos, Top.macro_call.pos>>,
             "Incorrect number of argument for expanding macro")
    /\ UNCHANGED <<estack, inbox, expand_nesting, output>>
    /\ HarvesterUnchanged

\* a content that is looked up in the macro table when its expansion begins
NextOfCallLate(caller, arguments, arg_table, i) ==
    IF i <= Len(arguments)
    THEN Activation("arg", arguments[i], caller.parameter_values)
    ELSE Activation("body", macro_definitions[caller.macro_def.name].content, arg_table)

\* a content that is expanded with the caller's bindings next to its own
NextOfCallInherit(caller, arguments, arg_table, i) ==
    IF i <= Len(arguments)
    THEN Activation("arg", arguments[i], caller.parameter_values)
    ELSE Activation("body", caller.macro_def.content, arg_table @@ caller.parameter_values)

\* the generator that expands argument i of the call of caller, or, after the last
\* argument, the one that expands the content
NextOfCall(caller, arguments, arg_table, i) ==
    IF i <= Len(arguments)
    THEN Activation("arg", arguments[i], caller.parameter_values)
    ELSE Activation("body", caller.macro_def.content, arg_table)

\* a call that leaves expand_nesting as it is
PushFrameNone(nesting, macro_call, macro_def) == nesting

\* "expand_nesting.append((macro_call, macro_def))"
PushFrame(nesting, macro_call, macro_def) ==
    Append(nesting, [macro_call |-> macro_call, macro_def |-> macro_def])

\* "expand_nesting.append((macro_call, macro_def))" and the depth check; the call
\* of report_error passes ordered_pos, a keyword report_error does not have
CallTooDeep ==
    /\ AtCallEnd /\ Top.macro_def # NoPiece
    /\ Len(Top.macro_def.parameters) = Len(CallArguments)
    /\ Len(expand_nesting) + 1 > MAX_EXPAND_LEVEL
    /\ expand_nesting' = PushFrame(expand_nesting, Top.macro_call, Top.macro_def)
    /\ Crash("TypeError: report_error() got an unexpected keyword argument 'ordered_pos'")
    /\ UNCHANGED <<estack, inbox, output>>
    /\ HarvesterUnchanged

\* the frame is pushed and the expansion of the first argument (of the content, for
\* a call without arguments) begins
CallExpand ==
    /\ AtCallEnd /\ Top.macro_def # NoPiece
    /\ Len(Top.macro_def.parameters) = Len(CallArguments)
    /\ Len(expand_nesting) + 1 <= MAX_EXPAND_LEVEL
    /\ expand_nesting' = PushFrame(expand_nesting, Top.macro_call, Top.macro_def)
    /\ LET caller == [AfterGet(estack)[Len(estack)] EXCEPT
                         !.mode = "call", !.arguments = CallArguments,
                         !.arg_table = EmptyDict]
       IN estack' = Append([estack EXCEPT ![Len(estack)] = caller],
                           NextOfCall(caller, CallArguments, EmptyDict, 1))
    /\ ConsumeInbox
    /\ UNCHANGED <<output, status, reports>>
    /\ HarvesterUnchanged

\* the generator below the innermost one: the caller it works for
Caller == estack[Len(estack) - 1]

AtReturn == CanGet /\ Top.mode = "scan" /\ Got = NoPiece

\* the expand_stream of an argument is exhausted: "arg_table[argname] = list(...)",
\* then the next argument or the content
ArgumentReturn ==
    /\ AtReturn /\ Top.kind = "arg"
    /\ LET i == Cardinality(DOMAIN Caller.arg_table) + 1
           argname == Caller.macro_def.parameters[i].text
           arg_table == DictSet(Caller.arg_table, argname, Top.acc)
           caller == [Caller EXCEPT !.arg_table = arg_table]
       IN IF argname \in DOMAIN Caller.arg_table
          THEN /\ Crash("AssertionError")
               /\ UNCHANGED estack
          ELSE /\ estack' = Append([SubSeq(estack, 1, Len(estack) - 1) EXCEPT
                                       ![Len(estack) - 1] = caller],
                                   NextOfCall(caller, caller.arguments, arg_table, i + 1))
               /\ UNCHANGED <<status, reports>>
    /\ UNCHANGED <<inbox, expand_nesting, output>>
    /\ HarvesterUnchanged

\* the frame is left on the list
KeepLast(nesting) == nesting

\* "del expand_nesting[-1]"
DelLast(nesting) == SubSeq(nesting, 1, Len(nesting) - 1)

\* the expand_stream of the content is exhausted: "del expand_nesting[-1]", and the
\* caller's loop goes on
BodyReturn ==
    /\ AtReturn /\ Top.kind = "body"
    /\ estack' = [SubSeq(estack, 1, Len(estack) - 1) EXCEPT
                     ![Len(estack) - 1].mode = "scan"]
    /\ expand_nesting' = DelLast(expand_nesting)
    /\ UNCHANGED <<inbox, output, status, reports>>
    /\ HarvesterUnchanged

\* the outermost expand_stream is exhausted: main.run's loop ends
TopReturn ==
    /\ AtReturn /\ Top.kind = "top"
    /\ status' = "done"
    /\ inbox' = <<>>
    /\ UNCHANGED <<estack, expand_nesting, output, reports>>
    /\ HarvesterUnchanged

-----------------------------------------------------------------------------
(* main.py: run() on a file system *)

\* the state after "stream = match2.read_file(cla.in_fname, macro_definitions)" and
\* "expand.expand_stream(getter, macro_definitions, {}, [])"
RunStart(fs, in_fname) ==
    /\ files = fs
    /\ pep479 \in BOOLEAN
    /\ readers = <<NewReader(in_fname, fs[in_fname], <<>>)>>
    /\ macro_definitions = EmptyDict
    /\ inbox = <<>>
    /\ estack = <<Activation("top", <<>>, EmptyDict)>>
    /\ expand_nesting = <<>>
    /\ output = <<>>
    /\ status = "running"
    /\ reports = <<>>

\* what main.run writes: the texts of the pieces it received, EndOfFile pieces left out
Written(pieces) ==
    Concat([i \in 1..Len(pieces) |->
               IF pieces[i].kind = PIECE_EOF THEN <<>> ELSE pieces[i].text])

-----------------------------------------------------------------------------
(* The lexer as a state machine: one action per iteration of its loops *)

MaxLexLen == 4
LexAlphabet == {"a", "1", " ", "\"", "\\", "/", "*", "(", CR, NL}

RECURSIVE SeqsUpTo(_, _)
\* all sequences over S of length at most n
SeqsUpTo(S, n) ==
    IF n = 0 THEN {<<>>}
    ELSE LET shorter == SeqsUpTo(S, n - 1)
         IN shorter \cup {Append(s, c) : s \in {t \in shorter : Len(t) = n - 1}, c \in S}

LexInputs == SeqsUpTo(LexAlphabet, MaxLexLen)

TokIdle == [data |-> <<>>, lines |-> <<>>, lineno |-> 0, col |-> 0,
            comment_mode |-> FALSE, out |-> <<>>, pc |-> "idle"]

TokStart(data) ==
    [data |-> data, lines |-> line_stream_file(data), lineno |-> 1, col |-> 0,
     comment_mode |-> FALSE, out |-> <<>>, pc |-> "line"]

LexFileName == <<"i", "n">>

PipelineIdle ==
    /\ files = <<>>
    /\ pep479 = FALSE
    /\ readers = <<>>
    /\ macro_definitions = <<>>
    /\ inbox = <<>>
    /\ estack = <<>>
    /\ expand_nesting = <<>>
    /\ output = <<>>
    /\ status = "idle"
    /\ reports = <<>>

PipelineUnchanged ==
    UNCHANGED <<files, pep479, readers, macro_definitions, inbox, estack, expand_nesting,
                output, status, reports>>

InitLex ==
    /\ \E data \in LexInputs : tok = TokStart(data)
    /\ PipelineIdle

\* one iteration of "while col < len(line)"
TokPiece ==
    /\ tok.pc = "line"
    /\ tok.lineno <= Len(tok.lines)
    /\ tok.col < Len(tok.lines[tok.lineno])
    /\ \E it \in {LexIter(LexFileName, tok.lineno, tok.lines[tok.lineno], tok.col,
                          tok.comment_mode)} :
          tok' = [tok EXCEPT !.out = @ \o it.pieces, !.col = it.col,
                             !.comment_mode = it.comment_mode]
    /\ PipelineUnchanged

\* "End of line reached": lineno = lineno + 1, the next line starts at col 0
TokEndOfLine ==
    /\ tok.pc = "line"
    /\ tok.lineno <= Len(tok.lines)
    /\ tok.col >= Len(tok.lines[tok.lineno])
    /\ tok' = [tok EXCEPT !.lineno = @ + 1, !.col = 0]
    /\ PipelineUnchanged

\* "All lines read and tokenized": the EndOfFile piece
TokEndOfFile ==
    /\ tok.pc = "line"
    /\ tok.lineno > Len(tok.lines)
    /\ tok' = [tok EXCEPT !.out = Append(@, EofPiece(LexFileName, tok.lineno)),
                          !.pc = "done"]
    /\ PipelineUnchanged

NextLex == TokPiece \/ TokEndOfLine \/ TokEndOfFile

SpecLex == InitLex /\ [][NextLex]_vars

-----------------------------------------------------------------------------
(* Input programs *)

fn_main == <<"m">>
fn_a == <<"a">>
fn_b == <<"b">>

w_sp == <<" ">>
w_nl == <<NL>>
w_open == <<"(">>
w_close == <<")">>
w_comma == <<",">>
w_call == <<"(", ")">>
w_hello == <<"h", "e", "l", "l", "o">>
w_world == <<"w", "o", "r", "l", "d">>
w_foo == <<"f", "o", "o">>
w_bar == <<"b", "a", "r">>
w_ADD == <<"A", "D", "D">>

Quoted(name) == <<"\"">> \o name \o <<"\"">>

\* "define NAME(P1, ..)" NL body NL "endmacro" NL
Definition(name, params, body) ==
    kw_define \o w_sp \o name \o params \o w_nl \o body \o w_nl \o kw_endmacro \o w_nl

IncludeLine(name) == kw_include \o w_sp \o Quoted(name) \o w_nl

OneFile(data) == [n \in {fn_main} |-> data]

\* a nullary macro defined without and with a parameter list, then called
NullaryBare ==
    OneFile(kw_define \o w_sp \o <<"G">> \o w_nl \o w_hello \o w_nl \o kw_endmacro \o w_nl
            \o <<"G">> \o w_call \o w_sp \o w_world \o w_nl)
NullaryParens ==
    OneFile(Definition(<<"G">>, w_call, w_hello) \o <<"G">> \o w_call \o w_sp \o w_world \o w_nl)

\* parameterized expansion
AddCall ==
    OneFile(Definition(w_ADD, <<"(", "x", ",", " ", "y", ")">>, <<"x", "+", "y">>)
            \o w_ADD \o <<"(", "1", ",", " ", "2", ")">>)

\* a macro whose body calls the macro
SelfCalling ==
    OneFile(Definition(<<"M">>, w_call, <<"M">> \o w_call) \o <<"M">> \o w_call \o w_nl)

\* glue of two macro calls, and of three words
GlueOfCalls ==
    OneFile(Definition(<<"N">>, <<"(", "x", ")">>, <<"x">>)
            \o kw_glue \o w_open \o <<"N">> \o w_open \o w_foo \o w_close \o w_comma \o w_sp
            \o <<"N">> \o w_open \o w_bar \o w_close \o w_close \o w_nl)
GlueOfWords == OneFile(kw_glue \o <<"(", "a", ",", " ", "b", ",", " ", "c", ")">>)

\* a macro named glue
GlueDefined ==
    OneFile(Definition(kw_glue, <<"(", "x", ")">>, <<"[", "x", "]">>)
            \o kw_glue \o <<"(", "a", ")">> \o w_nl)

\* a file that includes itself: at once, after text, and after an error
SelfInclude == OneFile(IncludeLine(fn_main))
SelfIncludeAfterText == OneFile(<<"x">> \o w_nl \o IncludeLine(fn_main))
SelfIncludeAfterError == OneFile(kw_endmacro \o w_nl \o IncludeLine(fn_main))

\* a file that includes itself after defining Z, which it uses before
SelfIncludeRedefining ==
    OneFile(<<"Z">> \o w_nl \o Definition(<<"Z">>, w_call, <<"z">>) \o IncludeLine(fn_main))

\* two files that include each other
MutualInclude ==
    [n \in {fn_main, fn_a} |->
        IF n = fn_main THEN <<"x">> \o w_nl \o IncludeLine(fn_a) ELSE IncludeLine(fn_main)]

\* a file of definitions, included and used
IncludeOnce ==
    [n \in {fn_main, fn_a} |->
        IF n = fn_main THEN IncludeLine(fn_a) \o <<"A">> \o w_call \o w_nl
        ELSE Definition(<<"A">>, w_call, <<"1">>)]

\* a file that is missing
IncludeMissing == OneFile(IncludeLine(fn_b))

\* a parameter listed twice
DuplicateParameter == OneFile(Definition(<<"D">>, <<"(", "x", ",", "x", ")">>, <<"x">>))

\* an argument in parentheses that holds a comma
NestedCall ==
    OneFile(Definition(<<"P">>, <<"(", "x", ")">>, <<"[", "x", "]">>)
            \o <<"P", "(", "(", "a", ",", " ", "b", ")", ")">>)

\* arguments of glue in parentheses, with whitespace and a comma inside
GlueOfParens ==
    OneFile(kw_glue \o <<"(", "(", " ", " ", "x", " ", " ", ")", ",", " ",
                          "(", " ", ",", "y", " ", ")", ")">>)

\* a macro of an included file defined again by the including file, then called
RedefineAfterInclude ==
    [n \in {fn_main, fn_a} |->
        IF n = fn_main
        THEN IncludeLine(fn_a) \o Definition(<<"M">>, w_call, <<"B">>) \o <<"M">> \o w_call \o w_nl
        ELSE Definition(<<"M">>, w_call, <<"A">>)]

\* the same in one file
RedefineInFile ==
    OneFile(Definition(<<"M">>, w_call, <<"A">>) \o Definition(<<"M">>, w_call, <<"B">>)
            \o <<"M">> \o w_call \o w_nl)

\* breaches of the define/endmacro protocol
NestedDefine ==
    OneFile(kw_define \o w_sp \o <<"F">> \o w_call \o w_nl
            \o Definition(<<"G">>, w_call, <<"g">>))
IncludeInDefine ==
    [n \in {fn_main, fn_a} |->
        IF n = fn_main
        THEN kw_define \o w_sp \o <<"F">> \o w_call \o w_nl \o IncludeLine(fn_a)
             \o kw_endmacro \o w_nl
        ELSE <<"x">> \o w_nl]
UnfinishedDefine ==
    OneFile(kw_define \o w_sp \o <<"F">> \o w_call \o w_nl \o <<"x">> \o w_nl)
EndMacroAlone == OneFile(<<"x">> \o w_nl \o kw_endmacro \o w_nl)

\* names of calls without their parentheses
DefineZ == Definition(<<"Z">>, w_call, <<"z">>)
GlueWithoutOpen == OneFile(kw_glue \o w_sp \o <<"x">> \o w_nl)
NameEndsBody ==
    OneFile(DefineZ \o Definition(<<"H">>, w_call, <<"Z">>) \o <<"H">> \o w_call \o w_nl)
NameEndsArgument ==
    OneFile(DefineZ \o Definition(<<"P">>, <<"(", "x", ")">>, <<"x">>)
            \o <<"P", "(", "Z", ")">> \o w_nl)
GlueEndsBody ==
    OneFile(Definition(<<"H">>, w_call, kw_glue) \o <<"H">> \o w_call \o w_nl)
SpacedCall == OneFile(DefineZ \o <<"Z", " ", " ", "(", ")">> \o w_nl)
UnclosedInBody ==
    OneFile(DefineZ \o Definition(<<"H">>, w_call, <<"Z", "(", "(", "a", ")">>)
            \o <<"[", "H">> \o w_call \o <<"]">> \o w_nl)

\* calls without arguments and with empty arguments
EmptyCallSpaces == OneFile(DefineZ \o <<"Z", "(", " ", NL, " ", ")">> \o w_nl)
EmptyCallUnwrapped == OneFile(DefineZ \o <<"Z", "(", "(", ")", ")">> \o w_nl)
EmptyArguments ==
    OneFile(Definition(<<"F">>, <<"(", "x", ",", "y", ")">>, <<"y", "-", "x">>)
            \o <<"F", "(", ",", ")">> \o w_nl)

\* directives that are broken off: define followed by endmacro, an include at the
\* end of a file without a newline
DefineThenEndMacro == OneFile(<<"x">> \o w_sp \o w_nl \o kw_define \o w_sp \o kw_endmacro \o w_nl)
IncludeAtEnd ==
    [n \in {fn_main, fn_a} |->
        IF n = fn_main THEN <<"x">> \o w_nl \o kw_include \o w_sp \o Quoted(fn_a)
        ELSE <<"y">> \o w_nl]

IndentedDefine ==
    OneFile(w_sp \o kw_define \o w_sp \o <<"I">> \o w_call \o w_nl \o <<"k">> \o w_nl
            \o kw_endmacro \o w_nl \o <<"x">> \o w_sp \o kw_define \o w_sp \o <<"J">>
            \o w_call \o w_nl \o <<"I">> \o w_call \o w_nl)

\* parameters named like a macro and like glue
ShadowedNames ==
    OneFile(Definition(<<"Z">>, w_call, <<"z">>)
            \o Definition(<<"S">>, <<"(", "Z", ",", " ", "g", "l", "u", "e", ")">>,
                          <<"[", "Z", "-", "g", "l", "u", "e", "(", "Z", ",", "Z", ")", "-", "Z", "(", ")", "]">>)
            \o <<"S", "(", "q", ",", " ", "r", ")">>)

\* a parameter's value that holds the name of a macro and the name of a parameter
ValueNotRescanned ==
    OneFile(Definition(<<"Z">>, w_call, <<"z">>)
            \o Definition(<<"I">>, <<"(", "x", ",", " ", "y", ")">>, <<"x", "(", ")", " ", "y", " ", "x">>)
            \o <<"I", "(", "g", "l", "u", "e", "(", "Z", ")", ",", " ", "x", ")">>)

\* a call in a body whose argument uses the caller's parameter, and a body that
\* names a parameter of its caller
CallerEnvironment ==
    OneFile(Definition(<<"Z">>, w_call, <<"z">>)
            \o Definition(<<"I">>, <<"(", "x", ")">>, <<"[", "x", " ", "y", "]">>)
            \o Definition(<<"O">>, <<"(", "y", ",", " ", "x", ")">>,
                          <<"I", "(", "y", " ", "Z", "(", ")", ")", " ", "y", " ", "x">>)
            \o <<"O", "(", "x", ",", " ", "1", ")">>)

\* a content with blank lines and spaces before, inside and after it
BlankLinesInContent ==
    OneFile(Definition(<<"T">>, w_call, <<NL, " ", "a", " ", NL, " ", "b", " ", NL, " ">>)
            \o <<"[", "T", "(", ")", "]">>)

\* a name used before its definition and after it
ForwardReference ==
    OneFile(<<"G">> \o w_call \o w_nl \o Definition(<<"G">>, w_call, <<"k">>)
            \o <<"G">> \o w_call)

\* a macro redefined between the parentheses of a call of it
RedefineInArguments ==
    OneFile(Definition(<<"G">>, <<"(", "x", ")">>, <<"[", "x", "]">>)
            \o <<"G", "(", "a">> \o w_nl
            \o Definition(<<"G">>, <<"(", "x", ")">>, <<"-", "x">>)
            \o <<")", " ", "G", "(", "b", ")">>)

\* a macro defined between the parentheses of a call, after a call of it there
DefineInArguments ==
    OneFile(Definition(<<"G">>, <<"(", "x", ")">>, <<"[", "x", "]">>)
            \o <<"G", "(", "H", "(", ")">> \o w_nl
            \o Definition(<<"H">>, w_call, <<"k">>)
            \o <<"H", "(", ")", ")">>)

\* calls nested in arguments, ten and eleven deep
DeepArguments(n) ==
    OneFile(Definition(<<"F">>, <<"(", "x", ")">>, <<"[", "x", "]">>)
            \o Concat([i \in 1..n |-> <<"F", "(">>]) \o <<"a">>
            \o [i \in 1..n |-> ")"])
TenDeepArguments == DeepArguments(MAX_EXPAND_LEVEL)
ElevenDeepArguments == DeepArguments(MAX_EXPAND_LEVEL + 1)

\* the scenarios of the user documentation and variations of them
Scenarios ==
    {NullaryBare, NullaryParens, AddCall, SelfCalling, GlueOfCalls, GlueOfWords,
     GlueDefined, SelfInclude, SelfIncludeAfterText, SelfIncludeAfterError,
     SelfIncludeRedefining, MutualInclude, IncludeOnce, IncludeMissing, DuplicateParameter,
     NestedCall, GlueOfParens, RedefineAfterInclude, RedefineInFile,
     NestedDefine, IncludeInDefine, UnfinishedDefine, EndMacroAlone,
     GlueWithoutOpen, NameEndsBody, NameEndsArgument, GlueEndsBody, SpacedCall,
     UnclosedInBody, EmptyCallSpaces, EmptyCallUnwrapped, EmptyArguments,
     DefineThenEndMacro, IncludeAtEnd, IndentedDefine,
     ShadowedNames, ValueNotRescanned, CallerEnvironment, BlankLinesInContent,
     ForwardReference, RedefineInArguments, DefineInArguments,
     TenDeepArguments, ElevenDeepArguments}

\* the definitions every generated program starts with
Prelude ==
    Definition(<<"F">>, <<"(", "x", ",", "y", ")">>, <<"y", "-", "x">>)
    \o Definition(<<"Z">>, w_call, <<"z">>)

MaxWords == 3
Heads == {<<"F">>, kw_glue}
Words == {<<"a">>, w_sp, w_open, w_close, w_comma, <<"Z">> \o w_call}

\* the programs: the prelude, then a call of F or of glue whose first argument is
\* made of up to MaxWords words and whose second argument is b
Generated ==
    {OneFile(Prelude \o h \o w_open \o Concat(ws) \o w_comma \o w_sp \o <<"b">> \o w_close) :
        h \in Heads, ws \in SeqsUpTo(Words, MaxWords)}

MaxPlain == 3
PlainWords == {<<"a">>, w_sp, w_open, <<"/", "*">>, <<"\"">>, w_nl, <<CR>>}

\* programs without directives, macro names or glue
PlainPrograms == {OneFile(Concat(ws)) : ws \in SeqsUpTo(PlainWords, MaxPlain)}

Init ==
    /\ tok = TokIdle
    /\ \E fs \in Scenarios \cup Generated \cup PlainPrograms : RunStart(fs, fn_main)

Next ==
    \/ MatchTurn
    \/ ReadDefine
    \/ ReadInclude
    \/ ReadEndMacro
    \/ ReadPiece
    \/ ReadMatchError
    \/ ReadReturn
    \/ ReadGeneratorStop
    \/ ExpandForward
    \/ ExpandParameter
    \/ ExpandCall
    \/ FindOpen
    \/ ArgumentsEnd
    \/ StoreArgument
    \/ StoreNested
    \/ ArgumentComma
    \/ CallGlue
    \/ CallArityError
    \/ CallTooDeep
    \/ CallExpand
    \/ ArgumentReturn
    \/ BodyReturn
    \/ TopReturn

Spec == Init /\ [][Next]_vars

\* two macros whose bodies call each other
MutualCalling ==
    OneFile(Definition(<<"A">>, w_call, <<"B">> \o w_call)
            \o Definition(<<"B">>, w_call, <<"A">> \o w_call)
            \o <<"A">> \o w_call \o w_nl)

\* runs of scenarios that call macros, directly, in arguments and recursively,
\* and that end in each of the ways a run can end
RunScenarios ==
    {SelfCalling, MutualCalling, AddCall, NestedCall, GlueOfWords, GlueWithoutOpen, UnclosedInBody,
     IncludeOnce, MutualInclude, DuplicateParameter,
     OneFile(Prelude \o <<"F">> \o w_open \o <<"a">> \o w_close)}

InitRun ==
    /\ tok = TokIdle
    /\ \E fs \in RunScenarios : RunStart(fs, fn_main)

\* every step of the run but the start of an included file
StepInPlace ==
    \/ MatchTurn \/ ReadDefine \/ ReadEndMacro \/ ReadPiece \/ ReadMatchError
    \/ ReadReturn \/ ReadGeneratorStop
    \/ ExpandForward \/ ExpandParameter \/ ExpandCall
    \/ FindOpen \/ ArgumentsEnd \/ StoreArgument \/ StoreNested \/ ArgumentComma
    \/ CallGlue \/ CallArityError \/ CallTooDeep \/ CallExpand
    \/ ArgumentReturn \/ BodyReturn \/ TopReturn

\* read_file holds an IncludePiece: the condition under which ReadInclude can step
AtInclude == Pulling /\ ReaderHasItem /\ Mixed.kind = "include"

\* the interpreter runs the program on: a step that can be taken is taken
SpecRun ==
    /\ InitRun /\ [][Next]_vars
    /\ WF_vars(StepInPlace)
    /\ ([]<>(~AtInclude) \/ []<><<ReadInclude>>_vars)

-----------------------------------------------------------------------------
(* The recognizer on its own: match_sequence(stream) over streams of any pieces *)

MaxStream == 2
StreamKinds == PieceKinds \ {PIECE_EOF}
StreamTexts == {kw_endmacro, <<"x">>}

\* the pieces a stream is made of; piece n of a stream is at column n - 1
StreamPieces ==
    {[kind |-> kind, text |-> text] : kind \in StreamKinds, text \in StreamTexts}

\* a stream of pieces of any kind and text that ends with the EndOfFile piece
StreamOf(shapes) ==
    [n \in 1..Len(shapes) |->
        StrPiece(shapes[n].kind, Position(1, fn_main, n - 1), shapes[n].text)]
    \o <<EofPiece(fn_main, 2)>>

InitMatch ==
    /\ tok = TokIdle
    /\ files = <<>>
    /\ pep479 = FALSE
    /\ \E shapes \in SeqsUpTo(StreamPieces, MaxStream) :
          readers = <<ReaderOf(fn_main, MatchStart(StreamOf(shapes)), <<>>)>>
    /\ macro_definitions = <<>>
    /\ inbox = <<>>
    /\ estack = <<>>
    /\ expand_nesting = <<>>
    /\ output = <<>>
    /\ status = "idle"
    /\ reports = <<>>

\* the caller's for-loop resumes match_sequence for one turn of its loop
MatchStep ==
    /\ status = "idle"
    /\ readers # <<>>
    /\ readers[1].end = "run"
    /\ readers' = [readers EXCEPT ![1] = Turn(@)]
    /\ UNCHANGED <<tok, files, pep479, macro_definitions, inbox, estack, expand_nesting,
                   output, status, reports>>

NextMatch == MatchStep

SpecMatch == InitMatch /\ [][NextMatch]_vars

\* the recognizer on the lexer streams of files, resumed until it ends: the
\* for-loop of its caller asks for the next item as long as there may be one
LexedFiles == {fs[fn_main] : fs \in Scenarios \cup PlainPrograms}

InitLexed ==
    /\ tok = TokIdle
    /\ files = <<>>
    /\ pep479 = FALSE
    /\ \E data \in LexedFiles : readers = <<NewReader(fn_main, data, <<>>)>>
    /\ macro_definitions = <<>>
    /\ inbox = <<>>
    /\ estack = <<>>
    /\ expand_nesting = <<>>
    /\ output = <<>>
    /\ status = "idle"
    /\ reports = <<>>

SpecLexed == InitLexed /\ [][NextMatch]_vars /\ WF_vars(MatchStep)

-----------------------------------------------------------------------------
(* Properties *)

Last(seq) == seq[Len(seq)]

\* the run is over: main.run returned, report_error exited, or an exception escaped
Ended == status \in {"done", "fatal", "crash"}

\* text ends with suffix
EndsWith(text, suffix) ==
    /\ Len(suffix) <= Len(text)
    /\ SubSeq(text, Len(text) - Len(suffix) + 1, Len(text)) = suffix

\* C1: a line "define NAME" without a parameter list, body lines and "endmacro"
\* register the macro NAME, and a later call NAME() is replaced by the body: the
\* program of the documentation ends with G in the macro table and with
\* "hello world" written.
C1_BareDefineRegisters ==
    (files = NullaryBare /\ Ended) =>
        /\ <<"G">> \in DOMAIN macro_definitions
        /\ EndsWith(Written(output), w_hello \o w_sp \o w_world \o w_nl)

\* the same program with "define G()": the macro is registered and expanded
ParensDefineRegisters ==
    (files = NullaryParens /\ Ended) =>
        /\ <<"G">> \in DOMAIN macro_definitions
        /\ EndsWith(Written(output), w_hello \o w_sp \o w_world \o w_nl)

\* C3: the name glue is reserved: a call of the identifier glue never resolves via
\* the macro table, whatever the table holds.
C3_GlueNeverResolves ==
    \A i \in 1..Len(estack) :
        (estack[i].macro_call # NoPiece /\ estack[i].macro_call.text = kw_glue)
            => estack[i].macro_def = NoPiece

\* C4: macro calls inside the arguments of glue are expanded before the
\* concatenation: glue(N(foo), N(bar)) with N(x) defined as x produces foobar.
C4_GlueExpandsArguments ==
    (files = GlueOfCalls /\ Ended) =>
        \E i \in 1..Len(output) :
            output[i].kind = PIECE_TEXT /\ output[i].text = w_foo \o w_bar

Max(S) == CHOOSE m \in S : \A n \in S : n <= m

\* the number of parentheses open before index i of pieces
Depth(pieces, i) ==
    Cardinality({j \in 1..(i - 1) : pieces[j].kind = PIECE_PAROPEN})
    - Cardinality({j \in 1..(i - 1) : pieces[j].kind = PIECE_PARCLOSE})

\* the commas outside every parenthesis pair
Separators(raw) ==
    {i \in 1..Len(raw) : raw[i].kind = PIECE_COMMA /\ Depth(raw, i) = 0}

\* the pieces between the separator at b (0: the start) and the next one
Segment(raw, b) ==
    SubSeq(raw, b + 1, Min({c \in Separators(raw) \cup {Len(raw) + 1} : c > b}) - 1)

\* what lies between the separators, in order
Segments(raw) ==
    LET starts == {0} \cup Separators(raw)
    IN [k \in 1..Cardinality(starts) |->
           Segment(raw, CHOOSE b \in starts : Cardinality({c \in starts : c < b}) = k - 1)]

\* pieces without its leading and trailing whitespace and newlines
Stripped(pieces) ==
    LET solid == {i \in 1..Len(pieces) : ~IsWhite(pieces[i])}
    IN IF solid = {} THEN <<>> ELSE SubSeq(pieces, Min(solid), Max(solid))

\* one parenthesis pair encloses all of pieces
Wrapped(pieces) ==
    /\ Len(pieces) >= 2
    /\ pieces[1].kind = PIECE_PAROPEN
    /\ pieces[Len(pieces)].kind = PIECE_PARCLOSE
    /\ \A i \in 2..Len(pieces) : Depth(pieces, i) >= 1

Unwrapped(pieces) ==
    IF Wrapped(pieces) THEN SubSeq(pieces, 2, Len(pieces) - 1) ELSE pieces

\* "(" whitespace? ")"
EmptyCall(raw) == Separators(raw) = {} /\ Stripped(raw) = <<>>

\* the arguments of a call, from the pieces raw between its parentheses: split at
\* the commas outside parentheses and stripped
StrippedArguments(raw) ==
    IF EmptyCall(raw) THEN <<>>
    ELSE [k \in DOMAIN Segments(raw) |-> Stripped(Segments(raw)[k])]

\* the same, each argument without the parenthesis pair that encloses all of it
RefArguments(raw) ==
    [k \in DOMAIN StrippedArguments(raw) |-> Unwrapped(StrippedArguments(raw)[k])]

\* content with each identifier that is one of parameters replaced by the
\* corresponding entry of values
Subst(content, parameters, values) ==
    Concat([i \in 1..Len(content) |->
               IF content[i].kind = PIECE_IDENTIFIER
                  /\ \E k \in 1..Len(parameters) : parameters[k].text = content[i].text
               THEN values[CHOOSE k \in 1..Len(parameters) :
                               parameters[k].text = content[i].text]
               ELSE <<content[i]>>])

\* the identifiers among pieces
Identifiers(pieces) ==
    {pieces[i].text : i \in {j \in 1..Len(pieces) : pieces[j].kind = PIECE_IDENTIFIER}}

\* the expansion of the content of a call has come to its end
AtBodyEnd == AtReturn /\ Top.kind = "body"

\* the pieces the call of Caller delivered
Replacement ==
    SubSeq(Delivered(estack, output, Len(estack) - 1), Caller.mark + 1,
           Len(Delivered(estack, output, Len(estack) - 1)))

\* the call of Caller names no macro, glue or parameter in its arguments, and its
\* macro's content names no macro or glue besides its parameters
PlainCall ==
    /\ \A name \in Identifiers(Caller.raw) :
          ~StartsCall(name) /\ name \notin DOMAIN Caller.parameter_values
    /\ \A name \in Identifiers(Caller.macro_def.content) :
          StartsCall(name) => name \in Identifiers(Caller.macro_def.parameters)

\* C2 as stated: every call of a macro is replaced by the macro's content with each
\* parameter replaced by the pieces of its argument, stripped of leading and
\* trailing whitespace and newlines.
C2_Original ==
    AtBodyEnd =>
        Replacement = Subst(Caller.macro_def.content, Caller.macro_def.parameters,
                            StrippedArguments(Caller.raw))

\* C2 amended: a call whose arguments name no macro, glue or bound parameter, of a
\* macro whose content names no macro or glue, is replaced by the content with each
\* parameter replaced by the pieces of its argument, stripped of leading and
\* trailing whitespace and newlines and then of the one parenthesis pair that
\* encloses all of it.
C2_PlainCallSubstitutes ==
    (AtBodyEnd /\ PlainCall) =>
        Replacement = Subst(Caller.macro_def.content, Caller.macro_def.parameters,
                            RefArguments(Caller.raw))

\* ADD(1, 2) has been replaced by 1+2
C2_Witness ==
    /\ files = AddCall
    /\ AtBodyEnd /\ PlainCall
    /\ RefArguments(Caller.raw) = <<SubSeq(Caller.raw, 1, 1), SubSeq(Caller.raw, 4, 4)>>
    /\ Concat(Texts(Replacement)) = <<"1", "+", "2">>

\* the texts of the arguments of a call, from the pieces raw between its
\* parentheses, joined without separators
JoinedArguments(raw) == Concat(Texts(Concat(RefArguments(raw))))

\* what the generator at index me of the stack has delivered grows by exactly the
\* one Text piece of the call that ends: positioned at the call, its text the
\* joined arguments
EmitsGlued(me) ==
    /\ Delivered(estack', output', me)
         = Append(Delivered(estack, output, me),
                  StrPiece(PIECE_TEXT, Top.macro_call.pos, JoinedArguments(Top.raw)))
    /\ Len(Delivered(estack', output', me)) = Top.mark + 1

\* C5: a call of glue emits exactly one Text piece, positioned at the call site,
\* whose text is the concatenation, in order and without separators, of the texts
\* of the pieces of its arguments, and nothing else.
C5_GlueCallEmitsOneText ==
    [][(AtCallEnd /\ Top.macro_call.text = kw_glue) => EmitsGlued(Len(estack))]_vars

\* the same for the calls the expander treats as glue: no macro is named glue
BuiltinGlueEmitsOneText ==
    [][CallGlue => EmitsGlued(Len(estack))]_vars

\* C6: expanding M, whose body is M(), is fatal with exactly 10 frames on
\* expand_nesting, and the report lists the 10 call sites in frame order.
C6_FatalAtTenFrames ==
    (files = SelfCalling /\ Ended) =>
        /\ status = "fatal"
        /\ Len(expand_nesting) = MAX_EXPAND_LEVEL
        /\ Last(reports).lines =
               [i \in 1..Len(expand_nesting) |-> expand_nesting[i].macro_call.pos]

\* while the run goes on, expand_nesting holds at most MAX_EXPAND_LEVEL frames
NestingBounded == status = "running" => Len(expand_nesting) <= MAX_EXPAND_LEVEL

\* C7: expand_nesting holds at most MAX_EXPAND_LEVEL frames while anything is
\* being expanded, and a push beyond the cap ends the run in a fatal error.
C7_OverflowIsFatal ==
    /\ NestingBounded
    /\ Len(expand_nesting) > MAX_EXPAND_LEVEL => status = "fatal"

\* C8: when the expansion of a call completes, expand_nesting is as long as it was
\* when the call began, and a run that ends successfully ends with expand_nesting
\* empty.
C8_FramesBalanced ==
    /\ [](status = "done" => expand_nesting = <<>>)
    /\ [][BodyReturn => Len(expand_nesting') = Caller.depth]_vars
    /\ [][CallGlue => Len(expand_nesting') = Top.depth]_vars

\* a run that expanded G() has ended successfully
C8_Witness ==
    /\ files = NullaryParens
    /\ status = "done"
    /\ expand_nesting = <<>>
    /\ EndsWith(Written(output), w_hello \o w_sp \o w_world \o w_nl)

\* a file is being read inside itself
SelfIncluding ==
    \E i, j \in 1..Len(readers) : i < j /\ readers[i].fname = readers[j].fname

\* the include stack of every read_file holds at most MAX_INCLUDE_LEVEL entries
IncludesBounded ==
    \A i \in 1..Len(readers) : Len(readers[i].includes) <= MAX_INCLUDE_LEVEL

TooManyIncludesMesg == "Too many includes (infinite recursion?)"

LexedText ==
    Concat(Texts(SelectSeq(tok.out, LAMBDA piece : piece.kind # PIECE_EOF)))

\* C10: the texts of the pieces the lexer emits before its EndOfFile piece,
\* concatenated in emission order, equal the input exactly.
C10_TextsEqualInput == tok.pc = "done" => LexedText = tok.data

\* they equal the text that open() delivers, and within each line the pieces are
\* non-empty and contiguous
TextsEqualTextRead ==
    /\ tok.pc = "done" => LexedText = TextMode(tok.data)
    /\ \A i \in 1..Len(tok.out) : tok.out[i].text # <<>>
    /\ \A i \in 1..(Len(tok.out) - 1) :
          tok.out[i + 1].pos.lineno = tok.out[i].pos.lineno
              => tok.out[i + 1].pos.column = tok.out[i].pos.column + Len(tok.out[i].text)

\* C11: for an input without define, include, endmacro, macro names and glue, the
\* concatenated text of the emitted pieces except EndOfFile equals the input.
C11_Identity ==
    (files \in PlainPrograms /\ Ended) => Written(output) = files[fn_main]

\* it equals the text that open() delivers
IdentityOfTextRead ==
    (files \in PlainPrograms /\ Ended) => Written(output) = TextMode(files[fn_main])

ArityMesg == "Incorrect number of argument for expanding macro"

\* the closing parenthesis of a call of a defined macro arrives, and the call has
\* another number of arguments than the macro has parameters
ArityMismatch ==
    /\ AtCallEnd
    /\ Top.macro_def # NoPiece
    /\ Len(Top.macro_def.parameters) # Len(RefArguments(Top.raw))

\* C12: a call of a defined macro with a number of arguments different from the
\* number of its parameters ends the run in a fatal error that reports the call
\* site and the definition site, before a frame is pushed and before any piece of
\* the body is emitted.
C12_ArityMismatchIsFatal ==
    [][ArityMismatch =>
          /\ status' = "fatal"
          /\ Last(reports').type = "error"
          /\ Last(reports').mesg = ArityMesg
          /\ {Last(reports').lines[i] : i \in 1..Len(Last(reports').lines)}
                = {Top.macro_call.pos, Top.macro_def.pos}
          /\ Top.macro_call.pos # Top.macro_def.pos
          /\ expand_nesting' = expand_nesting
          /\ output' = output
          /\ estack' = estack]_vars

\* a call of F, which has two parameters, with three arguments has ended the run
C12_Witness ==
    /\ status = "fatal"
    /\ Last(reports).mesg = ArityMesg
    /\ Len(Last(reports).lines) = 2
    /\ Top.macro_def # NoPiece
    /\ Top.macro_def.name = <<"F">>
    /\ Len(RefArguments(Top.raw)) = 3
    /\ expand_nesting = <<>>

\* the texts of the parameters are pairwise distinct
Distinct(parameters) ==
    \A i, j \in 1..Len(parameters) : i # j => parameters[i].text # parameters[j].text

DuplicateMesg == "Macro definition parameter is listed more than once"

\* every definition a reader holds: the accumulator of its recognizer, the records
\* the recognizer yielded, and current_def
ReaderDistinct(reader) ==
    /\ SequenceKind(reader.sequence) = "define" => Distinct(reader.sequence.parameters)
    /\ \A k \in 1..Len(reader.items) :
          reader.items[k].kind = "define" => Distinct(reader.items[k].parameters)
    /\ reader.current_def # NoPiece => Distinct(reader.current_def.parameters)

\* C13: the parameter names of every definition record of the recognizer and of
\* every registered definition are pairwise distinct; a definition that lists a
\* name twice ends the run in a fatal error and registers nothing; and when an
\* expanded argument is stored, its parameter's name is not yet in arg_table.
C13_ParametersDistinct ==
    /\ \A r \in 1..Len(readers) : ReaderDistinct(readers[r])
    /\ \A name \in DOMAIN macro_definitions : Distinct(macro_definitions[name].parameters)
    /\ \A e \in 1..Len(estack) :
          estack[e].macro_def # NoPiece => Distinct(estack[e].macro_def.parameters)
    /\ (AtReturn /\ Top.kind = "arg")
          => Caller.macro_def.parameters[Cardinality(DOMAIN Caller.arg_table) + 1].text
                \notin DOMAIN Caller.arg_table
    /\ (files = DuplicateParameter /\ Ended)
          => /\ status = "fatal"
             /\ Last(reports).mesg = DuplicateMesg
             /\ macro_definitions = EmptyDict

\* "define D(x, x)" has ended the run, with the accumulator holding the first x
C13_Witness ==
    /\ files = DuplicateParameter
    /\ status = "fatal"
    /\ Last(reports).mesg = DuplicateMesg
    /\ Len(Last(reports).lines) = 2
    /\ Len(Reader.sequence.parameters) = 1

\* find_arguments is reading the arguments of the call of Top
ReadingArguments == Top.mode \in {"arg", "nested"}

\* the number of parentheses open after all of pieces
OpenAfter(pieces) == Depth(pieces, Len(pieces) + 1)

\* C14: inside the argument list of a call, a comma or parenthesis within a
\* balanced nested group neither splits nor ends an argument: while the arguments
\* are read no closing parenthesis has been taken outside a group, the arguments
\* completed are as many as the commas outside every group, and the call ends at
\* the first closing parenthesis outside every group, with 1 + the number of those
\* commas arguments unless it is empty, each one the pieces between two of them;
\* P((a, b)) with content [x] yields [a, b].
C14_NestedTransparent ==
    /\ ReadingArguments
          => /\ \A i \in 1..(Len(Top.raw) + 1) : Depth(Top.raw, i) >= 0
             /\ (Top.mode = "nested") <=> (OpenAfter(Top.raw) > 0)
             /\ Len(Top.arguments) = Cardinality(Separators(Top.raw))
    /\ AtCallEnd
          => /\ OpenAfter(Top.raw) = 0
             /\ Len(CallArguments) = IF EmptyCall(Top.raw) THEN 0
                                     ELSE 1 + Cardinality(Separators(Top.raw))
             /\ CallArguments = RefArguments(Top.raw)
    /\ (files = NestedCall /\ Ended)
          => /\ status \in {"done", "crash"}
             /\ Written(output) = <<NL, "[", "a", ",", " ", "b", "]">>

\* the call P((a, b)) ends with the one argument a, b
C14_Witness ==
    /\ files = NestedCall
    /\ AtCallEnd
    /\ Cardinality(Separators(Top.raw)) = 0
    /\ Len(Top.raw) = 6
    /\ Len(CallArguments) = 1
    /\ Len(CallArguments[1]) = 4

\* the first piece is "(" and the first ")" among pieces is the last piece
FirstCloseIsLast(pieces) ==
    /\ pieces # <<>>
    /\ pieces[1].kind = PIECE_PAROPEN
    /\ pieces[Len(pieces)].kind = PIECE_PARCLOSE
    /\ \A i \in 1..(Len(pieces) - 1) : pieces[i].kind # PIECE_PARCLOSE

Inner(pieces) == SubSeq(pieces, 2, Len(pieces) - 1)

\* the call of Top ends and is not empty; its arguments are numbered
ArgumentNumbers == IF EmptyCall(Top.raw) THEN {} ELSE DOMAIN StrippedArguments(Top.raw)

Warned == \E i \in 1..Len(reports) : reports[i].type = "warning"

\* the texts of the pieces written
OutputTexts == {output[i].text : i \in 1..Len(output)}

\* C16: a definition of a name that is in the macro table is a warning and the
\* run goes on; afterwards the name maps to the new definition and calls expand
\* to the new content: when a.x defines M as A and b.x includes a.x, defines M as
\* B and calls M(), the run of b.x warns and writes B.
C16_RedefinedExpandsToNew ==
    /\ Warned => status # "fatal"
    /\ (files = RedefineInFile /\ Ended)
          => Warned /\ <<"B">> \in OutputTexts /\ <<"A">> \notin OutputTexts
    /\ (files = RedefineAfterInclude /\ Ended)
          => Warned /\ <<"B">> \in OutputTexts /\ <<"A">> \notin OutputTexts

\* read_file is at a DefinePiece, outside a definition, whose name is in the table
Redefining ==
    /\ Pulling /\ ReaderHasItem
    /\ Mixed.kind = "define"
    /\ Reader.current_def = NoPiece
    /\ Mixed.name \in DOMAIN macro_definitions

\* the step taken at such a DefinePiece: a warning with both positions, the run
\* goes on, the table is as it was
WarnStep ==
    Redefining =>
        /\ status' = "running"
        /\ Len(reports') = Len(reports) + 1
        /\ Last(reports').type = "warning"
        /\ {Last(reports').lines[i] : i \in 1..Len(Last(reports').lines)}
              = {Mixed.pos, macro_definitions[Mixed.name].pos}
        /\ macro_definitions' = macro_definitions
        /\ readers'[Len(readers)].current_def = Mixed

\* the only step that changes the table is the one at an EndMacroPiece, which
\* maps the name of current_def to current_def and leaves the other names alone
TableStep ==
    macro_definitions' # macro_definitions =>
        /\ Pulling /\ ReaderHasItem
        /\ Mixed.kind = "endmacro"
        /\ Reader.current_def # NoPiece
        /\ DOMAIN macro_definitions' = DOMAIN macro_definitions \cup {Reader.current_def.name}
        /\ macro_definitions'[Reader.current_def.name].pos = Reader.current_def.pos
        /\ macro_definitions'[Reader.current_def.name].content
              = StripTrailing(Reader.current_def.content)
        /\ \A name \in DOMAIN macro_definitions \ {Reader.current_def.name} :
              macro_definitions'[name] = macro_definitions[name]

\* the part of C16 that holds on every interpreter: the warning, the table, and
\* the example whenever the run of b.x gets past the end of a.x
RedefinitionWarns ==
    /\ [][WarnStep /\ TableStep]_vars
    /\ [](Warned => status # "fatal")
    /\ []((files = RedefineInFile /\ Ended)
             => Warned /\ <<"B">> \in OutputTexts /\ <<"A">> \notin OutputTexts)
    /\ []((files = RedefineAfterInclude /\ Ended /\ ~pep479)
             => Warned /\ <<"B">> \in OutputTexts /\ <<"A">> \notin OutputTexts)
    /\ []((files = RedefineAfterInclude /\ Ended /\ pep479)
             => status = "crash" /\ ~Warned /\ Written(output) = <<NL>>)

\* read_file is at an item that the define/endmacro protocol forbids
ProtocolBreach ==
    /\ Pulling /\ ReaderHasItem
    /\ \/ /\ Reader.current_def # NoPiece
          /\ Mixed.kind \in {"define", "include", PIECE_EOF}
       \/ /\ Reader.current_def = NoPiece
          /\ Mixed.kind = "endmacro"

\* such an item ends the run in a fatal error, and nothing else changes
BreachStep ==
    ProtocolBreach =>
        /\ status' = "fatal"
        /\ Len(reports') = Len(reports) + 1
        /\ Last(reports').type = "error"
        /\ Mixed.pos \in {Last(reports').lines[i] : i \in 1..Len(Last(reports').lines)}
        /\ UNCHANGED <<macro_definitions, readers, output>>

\* a definition enters the table only at an EndMacroPiece, and it is current_def
RegisterStep ==
    macro_definitions' # macro_definitions =>
        /\ Pulling /\ ReaderHasItem
        /\ Mixed.kind = "endmacro"
        /\ Reader.current_def # NoPiece
        /\ Reader.current_def.name \in DOMAIN macro_definitions'
        /\ macro_definitions'[Reader.current_def.name].pos = Reader.current_def.pos
        /\ readers'[Len(readers)].current_def = NoPiece

\* a read_file begins and ends outside a definition
BoundaryStep ==
    /\ Len(readers') > Len(readers) =>
          Reader.current_def = NoPiece /\ readers'[Len(readers')].current_def = NoPiece
    /\ Len(readers') < Len(readers) => Reader.current_def = NoPiece

IsMark(item) == item.kind \in {"define", "endmacro"}

\* the DefinePieces and EndMacroPieces among the items read_file has handled
Marks(reader) == SelectSeq(SubSeq(reader.items, 1, reader.idx - 1), IsMark)

\* they alternate, a DefinePiece first, and current_def is set after a DefinePiece
Alternating(reader) ==
    /\ \A k \in 1..Len(Marks(reader)) :
          Marks(reader)[k].kind = IF k % 2 = 1 THEN "define" ELSE "endmacro"
    /\ (reader.current_def # NoPiece) <=> (Len(Marks(reader)) % 2 = 1)

\* C17: read_file enforces the define/endmacro protocol in every file: a
\* DefinePiece, an IncludePiece or the EndOfFile piece met inside a definition and
\* an EndMacroPiece met outside one end the run in a fatal error; the
\* DefinePieces and EndMacroPieces handled alternate; a definition is registered
\* only at its EndMacroPiece; and no definition spans a file boundary: a file is
\* included, begun and ended outside every definition.
C17_DefineProtocol ==
    /\ [][BreachStep /\ RegisterStep /\ BoundaryStep]_vars
    /\ [](\A r \in 1..Len(readers) : Alternating(readers[r]))
    /\ [](\A r \in 1..(Len(readers) - 1) : readers[r].current_def = NoPiece)

\* "define G()" inside the definition of F has ended the run
C17_Witness ==
    /\ files = NestedDefine
    /\ status = "fatal"
    /\ ReaderHasItem
    /\ Mixed.kind = "define"
    /\ Mixed.name = <<"G">>
    /\ Reader.current_def # NoPiece
    /\ Reader.current_def.name = <<"F">>
    /\ macro_definitions = EmptyDict

\* the MatchStates of the table
MatchStates == {STATES[i] : i \in {j \in 1..Len(STATES) : STATES[j].class = "MatchState"}}

\* "piece_map": the kinds of the edges of a state that have no text
piece_map(s) ==
    {s.edges[e].kind : e \in {j \in 1..Len(s.edges) : s.edges[j].text = NoText}}

\* texts a piece may have: the three keywords, a name, a parenthesis, nothing
SomeTexts == {kw_define, kw_include, kw_endmacro, kw_glue, <<"x">>, <<"(">>, <<>>}

\* the edges without a text of every MatchState cover the ten kinds
EdgesCoverKinds == \A s \in MatchStates : piece_map(s) = PieceKinds

\* in every MatchState some edge matches a piece of any kind and text
EdgesMatchAll ==
    \A s \in MatchStates : \A kind \in PieceKinds, text \in SomeTexts :
        SelEdge(s.edges, [kind |-> kind, text |-> text]) # 0

\* the recognizer of reader is about to look for an edge for its next piece
AtPiece(reader) ==
    /\ reader.end = "run"
    /\ reader.state_num # NoState
    /\ available_states(reader.state_num).class = "MatchState"
    /\ reader.at <= Len(reader.pieces)

\* C18: in every MatchState the edges without a text cover all ten kinds of
\* piece, so in every state some edge matches every piece, whatever its kind and
\* text, and "assert sel_edge" never fails in a run.
C18_EdgesExhaustive ==
    /\ Cardinality(PieceKinds) = NUM_PIECES
    /\ EdgesCoverKinds
    /\ EdgesMatchAll
    /\ \A r \in 1..Len(readers) :
          /\ AtPiece(readers[r])
                => SelEdge(available_states(readers[r].state_num).edges,
                           readers[r].pieces[readers[r].at]) # 0
          /\ readers[r].end # "assert"

\* the recognizer is in STATE12, after the name of "define G", and finds an edge
\* for the newline that follows
C18_Witness ==
    /\ AtPiece(Reader)
    /\ Reader.state_num = STATE12
    /\ Reader.pieces[Reader.at].kind = PIECE_EOL
    /\ SelEdge(available_states(STATE12).edges, Reader.pieces[Reader.at]) # 0

MissingOpenMesg == "Missing open parentheses for macro call"

\* find_arguments looks for the opening parenthesis of the call of Top
FindingOpen == CanGet /\ Top.mode = "open"

\* what it gets is whitespace
OpenSkips == FindingOpen /\ Got # NoPiece /\ Got.kind = PIECE_SPACES

\* the source is exhausted, or what it gets is neither whitespace nor "("
NoOpen ==
    /\ FindingOpen
    /\ Got = NoPiece \/ Got.kind \notin {PIECE_SPACES, PIECE_PAROPEN}

\* the fatal error of a missing "(", reported at the call site; nothing is written
MissingOpenReported ==
    /\ status' = "fatal"
    /\ Len(reports') = Len(reports) + 1
    /\ Last(reports').type = "error"
    /\ Last(reports').mesg = MissingOpenMesg
    /\ Last(reports').lines = <<Top.macro_call.pos>>
    /\ output' = output

\* whitespace before "(" is skipped
SkipStep ==
    OpenSkips => /\ status' = "running"
                 /\ estack'[Len(estack)].mode = "open"
                 /\ output' = output

\* C19: after an identifier that names a defined macro or is glue, whitespace
\* before "(" is skipped; when the next piece that is not whitespace is not "(",
\* or the source of pieces is exhausted, the run ends in the fatal error of a
\* missing open parenthesis, reported at the call site.
C19_MissingOpenIsFatal ==
    [][SkipStep /\ (NoOpen => MissingOpenReported)]_vars

\* the same for the names of defined macros only; for glue the run ends in an
\* exception and nothing is reported
MacroMissingOpenIsFatal ==
    [][/\ SkipStep
       /\ (NoOpen /\ Top.macro_def # NoPiece) => MissingOpenReported
       /\ (NoOpen /\ Top.macro_def = NoPiece)
             => /\ status' = "crash"
                /\ Last(reports').type = "exception"
                /\ output' = output]_vars

MissingCloseMesg == "Missing closing parentheses for macro call"

\* while the arguments of the call of Top are read the source of pieces is
\* exhausted or delivers the EndOfFile piece
Unclosed ==
    /\ CanGet /\ ReadingArguments
    /\ Got = NoPiece \/ Got.kind = PIECE_EOF

\* nothing has been delivered since the name of the call of Top was read
NothingEmitted == Len(Delivered(estack, output, Len(estack))) = Top.mark

\* the fatal error of a missing ")", reported at the call site; nothing is written
MissingCloseReported ==
    /\ status' = "fatal"
    /\ Len(reports') = Len(reports) + 1
    /\ Last(reports').type = "error"
    /\ Last(reports').mesg = MissingCloseMesg
    /\ Last(reports').lines = <<Top.macro_call.pos>>
    /\ NothingEmitted
    /\ UNCHANGED <<output, estack>>

\* C20: when the source of pieces is exhausted or delivers the EndOfFile piece
\* while the arguments of a call of a defined macro or of glue are read, outside
\* or inside a nested parenthesis group, the run ends in the fatal error of a
\* missing closing parenthesis, reported at the call site, and no piece of the
\* call has been emitted.
C20_MissingCloseIsFatal ==
    [][Unclosed => MissingCloseReported]_vars

\* the same for the calls of defined macros only; for glue the run ends in an
\* exception, nothing is reported, and nothing of the call has been emitted
MacroMissingCloseIsFatal ==
    [][/\ (Unclosed /\ Top.macro_def # NoPiece) => MissingCloseReported
       /\ (Unclosed /\ Top.macro_def = NoPiece)
             => /\ status' = "crash"
                /\ Last(reports').type = "exception"
                /\ NothingEmitted
                /\ UNCHANGED <<output, estack>>]_vars

\* every piece is whitespace or a newline
OnlyWhite(pieces) == \A i \in 1..Len(pieces) : IsWhite(pieces[i])

\* C21: a call yields zero arguments exactly when the pieces between its
\* parentheses are all whitespace or newlines; F(()) yields one argument, which
\* is empty, and F(,) yields two empty arguments.
C21_EmptyCallOnly ==
    AtCallEnd =>
        /\ (Len(CallArguments) = 0) <=> OnlyWhite(Top.raw)
        /\ Texts(Top.raw) = <<w_open, w_close>> => CallArguments = << <<>> >>
        /\ Texts(Top.raw) = <<w_comma>> => CallArguments = << <<>>, <<>> >>

\* the call Z(()) ends with one empty argument
C21_Witness ==
    /\ files = EmptyCallUnwrapped
    /\ AtCallEnd
    /\ Texts(Top.raw) = <<w_open, w_close>>
    /\ CallArguments = << <<>> >>

\* the pieces an item of the recognizer holds: itself, or the storeds of a record
PiecesOf(item) == IF IsDirective(item) THEN item.storeds ELSE <<item>>

\* the pieces of everything the recognizer of reader has yielded, in that order,
\* followed by those buffered in its open accumulator
Accounted(reader) ==
    Concat([i \in 1..Len(reader.items) |-> PiecesOf(reader.items[i])])
    \o (IF reader.sequence = NoPiece THEN <<>> ELSE reader.sequence.storeds)

\* the pieces its turns have handled
Consumed(reader) == SubSeq(reader.pieces, 1, reader.at - 1)

NotEOF(piece) == piece.kind # PIECE_EOF
IsRaw(item) == ~IsDirective(item)

\* the pieces forwarded as they are
RawItems(reader) == SelectSeq(reader.items, IsRaw)

\* the pieces of the file of reader are pairwise different
PiecesDiffer(reader) ==
    \A i, j \in 1..Len(reader.pieces) : i # j => reader.pieces[i] # reader.pieces[j]

\* accounted holds the pieces of consumed, each once and, but for the EndOfFile
\* piece, in their order; raw is what of consumed was forwarded, in source order
SamePieces(accounted, consumed, raw) ==
    LET forwarded == {raw[k] : k \in 1..Len(raw)}
        Forwarded(piece) == piece \in forwarded
    IN /\ Len(accounted) = Len(consumed)
       /\ SelectSeq(accounted, NotEOF) = SelectSeq(consumed, NotEOF)
       /\ raw = SelectSeq(consumed, Forwarded)

NoLoss(reader) ==
    /\ reader.at = 1 => PiecesDiffer(reader)
    /\ SamePieces(Accounted(reader), Consumed(reader), RawItems(reader))

\* C22: the recognizer loses and duplicates no piece: the pieces it has consumed
\* are, each exactly once, the pieces it forwarded as they are, those buffered in
\* the records it yielded and those in its open accumulator; the forwarded pieces
\* are in source order; and the pieces of an accumulator that is discarded or
\* replaced come out before the piece that replaced it.
C22_NoPieceLost ==
    \A r \in 1..Len(readers) : NoLoss(readers[r])

\* "define endmacro": the pieces of the broken-off define were forwarded, the
\* record of the endmacro follows them
C22_Witness ==
    /\ files = DefineThenEndMacro
    /\ Len(Reader.items) = 6
    /\ Reader.items[4].text = kw_define
    /\ Reader.items[5].kind = PIECE_SPACES
    /\ Reader.items[6].kind = "endmacro"
    /\ Len(Reader.items[6].storeds) = 1

\* the first edge, in table order, of the kind of piece whose text, if it has
\* one, is the text of piece; 0 if there is none
FirstEdgeOfKind(edges, piece) ==
    LET hits == {i \in 1..Len(edges) :
                    /\ edges[i].kind = piece.kind
                    /\ edges[i].text = NoText \/ edges[i].text = piece.text}
    IN IF hits = {} THEN 0 ELSE Min(hits)

\* the edge the recognizer of reader selects for its next piece is that edge
SelectsFirstOfKind(reader) ==
    AtPiece(reader) =>
        /\ SelEdge(available_states(reader.state_num).edges, reader.pieces[reader.at])
              = FirstEdgeOfKind(available_states(reader.state_num).edges,
                                reader.pieces[reader.at])
        /\ available_states(reader.state_num).edges[
               SelEdge(available_states(reader.state_num).edges,
                       reader.pieces[reader.at])].kind
              = reader.pieces[reader.at].kind

LexedSelectsFirstOfKind ==
    status # "idle" => \A r \in 1..Len(readers) : SelectsFirstOfKind(readers[r])

\* the state an edge of state s leads to
NextState(s, edge) == IF edge.goto = NoState THEN s ELSE available_states(edge.goto)

\* what setup_states asserts of an edge of s: an edge that opens an accumulator
\* leads to a state that expects its kind, an edge without action or with 'send'
\* to one that expects what s expects, a 'discard' to one that expects none
EdgeCoherent(s, edge) ==
    IF edge.sequence_action \in {"define", "include", "endmacro"}
    THEN NextState(s, edge).expected_sequence = edge.sequence_action
    ELSE IF edge.sequence_action = "discard"
    THEN NextState(s, edge).expected_sequence = "none"
    ELSE /\ edge.sequence_action \in {None, "send"}
         /\ NextState(s, edge).expected_sequence = s.expected_sequence

FinishStates == {STATES[i] : i \in {j \in 1..Len(STATES) : STATES[j].class = "FinishState"}}

\* the table is coherent
TableCoherent ==
    /\ \A s \in MatchStates : \A e \in 1..Len(s.edges) : EdgeCoherent(s, s.edges[e])
    /\ \A s \in FinishStates :
          s.goto # NoState => available_states(s.goto).expected_sequence = "none"
    /\ \A s \in MatchStates \cup FinishStates :
          s.expected_sequence \in {"none", "define", "include", "endmacro"}

\* the recognizer of reader is about to enter a state
AtState(reader) == reader.end = "run" /\ reader.state_num # NoState

\* C24: whenever the recognizer enters a MatchState or a FinishState the kind of
\* its open accumulator is the expected_sequence of that state, so
\* verify_expected_sequence never fails; in the table, edges that open an
\* accumulator lead to a state that expects its kind, discard edges and
\* FinishStates lead to states that expect none, and the other edges keep the kind.
C24_AccumulatorCoherent ==
    /\ TableCoherent
    /\ \A r \in 1..Len(readers) :
          /\ AtState(readers[r])
                => SequenceKind(readers[r].sequence)
                      = available_states(readers[r].state_num).expected_sequence
          /\ readers[r].end # "assert"

\* the recognizer enters the FinishState STATE31 with the accumulator of an endmacro
C24_Witness ==
    /\ AtState(Reader)
    /\ Reader.state_num = STATE31
    /\ available_states(STATE31).class = "FinishState"
    /\ SequenceKind(Reader.sequence) = "endmacro"

\* the stream ends with the EndOfFile piece and holds no other one
OneEOF(pieces) ==
    /\ pieces # <<>>
    /\ \A i \in 1..Len(pieces) : (pieces[i].kind = PIECE_EOF) <=> (i = Len(pieces))

\* "cur_state = None" after the FinishState STATE99
Halted(reader) == reader.state_num = NoState

\* the recognizer is in STATE99 or past it only with the EndOfFile piece consumed
\* and nothing left unread; it never asks for a piece after the EndOfFile piece
\* while in a MatchState, and when it has halted the stream is exhausted
HaltsAtEnd(reader) ==
    /\ OneEOF(reader.pieces)
    /\ reader.at <= Len(reader.pieces) + 1
    /\ (Halted(reader) \/ reader.state_num = STATE99)
          => reader.at = Len(reader.pieces) + 1
    /\ reader.end \notin {"starved", "early", "assert"}
    /\ reader.end = "stop" => Halted(reader)

\* C25 as stated: the lexer stream of a file ends with its one EndOfFile piece,
\* and on every such stream the recognizer eventually halts after STATE99, having
\* consumed the EndOfFile piece and with no piece left.
C25_Original ==
    /\ [](HaltsAtEnd(readers[1]))
    /\ <>(Halted(readers[1]))

\* C25 amended: the same, except that on a stream that lists a parameter twice
\* the recognizer ends the run with the fatal error of the duplicate instead of
\* halting.
C25_HaltsOrDuplicate ==
    /\ [](HaltsAtEnd(readers[1]))
    /\ <>(Halted(readers[1]) \/ readers[1].end = "dup")
    /\ [](readers[1].end = "dup" =>
            \E i, j \in 1..Len(readers[1].pieces) :
                /\ i < j
                /\ readers[1].pieces[i].kind = PIECE_IDENTIFIER
                /\ readers[1].pieces[i].text = readers[1].pieces[j].text
                /\ readers[1].dup = <<readers[1].pieces[j].pos, readers[1].pieces[i].pos>>)

\* the recognizer has halted on a stream of several pieces, all of them consumed
C25_Witness ==
    /\ status = "idle"
    /\ Halted(readers[1])
    /\ readers[1].end = "stop"
    /\ Len(readers[1].pieces) >= 5
    /\ readers[1].at = Len(readers[1].pieces) + 1
    /\ \E i \in 1..Len(readers[1].items) : readers[1].items[i].kind = "define"

\* the text of piece is the keyword kw and piece is an Identifier
IsKeyword(piece, kw) == piece.kind = PIECE_IDENTIFIER /\ piece.text = kw

\* the turn of STATE1 on its next piece is the one the table of match2.py:171-185
\* gives; spaces tells where a Whitespace piece leads
LineStartTurn(reader, spaces) ==
    (reader.state_num = STATE1 /\ reader.end = "run" /\ reader.at <= Len(reader.pieces)) =>
        LET piece == reader.pieces[reader.at]
            after == Turn(reader)
            opened(kind, goto) ==
                /\ after.state_num = goto
                /\ SequenceKind(after.sequence) = kind
                /\ after.sequence.pos = piece.pos
            plain(goto) == after.state_num = goto /\ after.sequence = NoPiece
        IN  /\ after.end = "run"
            /\ after.at = reader.at + 1
            /\ IF piece.kind = PIECE_EOL THEN plain(STATE1)
               ELSE IF piece.kind = PIECE_EOF THEN plain(STATE99)
               ELSE IF IsKeyword(piece, kw_define) THEN opened("define", STATE11)
               ELSE IF IsKeyword(piece, kw_include) THEN opened("include", STATE21)
               ELSE IF IsKeyword(piece, kw_endmacro) THEN opened("endmacro", STATE31)
               ELSE IF piece.kind = PIECE_SPACES THEN plain(spaces)
               ELSE plain(STATE2)

\* the turn of STATE2 opens no define and no include: it leaves STATE2 only at a
\* Newline, at EndOfFile or at the identifier endmacro (match2.py:191-203)
RestOfLineTurn(reader) ==
    (reader.state_num = STATE2 /\ reader.end = "run" /\ reader.at <= Len(reader.pieces)) =>
        LET piece == reader.pieces[reader.at]
            after == Turn(reader)
        IN  /\ SequenceKind(after.sequence) \in {"none", "endmacro"}
            /\ after.state_num = IF piece.kind = PIECE_EOL THEN STATE1
                                 ELSE IF piece.kind = PIECE_EOF THEN STATE99
                                 ELSE IF IsKeyword(piece, kw_endmacro) THEN STATE31
                                 ELSE STATE2

\* the accumulators of define and include the recognizer has opened so far
Opened(reader) ==
    {reader.items[i] : i \in {j \in 1..Len(reader.items) :
                                 reader.items[j].kind \in {"define", "include"}}}
    \cup (IF SequenceKind(reader.sequence) \in {"define", "include"}
          THEN {reader.sequence} ELSE {})

\* piece k of the stream is the first of its line, Whitespace pieces skipped or not
StartsLine(pieces, k, skipped) ==
    LET before == {j \in 1..(k - 1) : pieces[j].kind \notin skipped}
    IN before = {} \/ pieces[Max(before)].kind = PIECE_EOL

\* every define and include that was recognized has its keyword at the start of
\* a line
OpenedAtLineStart(reader, skipped) ==
    \A sequence \in Opened(reader) :
        \E k \in 1..Len(reader.pieces) :
            /\ reader.pieces[k].pos = sequence.pos
            /\ reader.pieces[k].kind = PIECE_IDENTIFIER
            /\ StartsLine(reader.pieces, k, skipped)

\* C26 as stated: in STATE1 a Newline stays, EndOfFile leads to STATE99, define,
\* include and endmacro open their accumulator and lead to STATE11, STATE21 and
\* STATE31, and every other piece, a Whitespace piece too, leads to STATE2, so a
\* define or include is recognized only as the very first piece of its line.
C26_Original ==
    /\ LineStartTurn(readers[1], STATE2)
    /\ RestOfLineTurn(readers[1])
    /\ OpenedAtLineStart(readers[1], {})

\* C26 amended: as above, except that a Whitespace piece keeps the recognizer in
\* STATE1, so a define or include is recognized when only Whitespace pieces
\* precede it on its line, and never after any other piece of the line.
C26_LineStart ==
    /\ LineStartTurn(readers[1], STATE1)
    /\ RestOfLineTurn(readers[1])
    /\ OpenedAtLineStart(readers[1], {PIECE_SPACES})

\* an indented define has been recognized and a define after another piece of
\* its line has been passed over
C26_Witness ==
    /\ readers[1].end = "stop"
    /\ \E sequence \in Opened(readers[1]) :
          \E k \in 2..Len(readers[1].pieces) :
              /\ readers[1].pieces[k].pos = sequence.pos
              /\ readers[1].pieces[k - 1].kind = PIECE_SPACES
    /\ \E i \in 1..Len(readers[1].items) : IsKeyword(readers[1].items[i], kw_define)

IsEndMacro(piece) == IsKeyword(piece, kw_endmacro)
IsEndMacroRecord(item) == item.kind = "endmacro"

\* no Identifier endmacro among pieces
NoEndMacroIn(pieces) == \A i \in 1..Len(pieces) : ~IsEndMacro(pieces[i])

\* the records of endmacro the recognizer made so far, the open one last
EndMacroRecords(reader) ==
    SelectSeq(reader.items, IsEndMacroRecord)
    \o (IF SequenceKind(reader.sequence) = "endmacro" THEN <<reader.sequence>> ELSE <<>>)

\* the records are, one for one and in order, the endmacro identifiers consumed
OneRecordEach(records, found) ==
    /\ Len(records) = Len(found)
    /\ \A i \in 1..Len(records) :
          records[i].pos = found[i].pos /\ records[i].storeds = <<found[i]>>

\* no endmacro identifier was forwarded as it is or buffered in another record
NeverRaw(reader) ==
    /\ \A i \in 1..Len(reader.items) :
          IsEndMacroRecord(reader.items[i]) \/ NoEndMacroIn(PiecesOf(reader.items[i]))
    /\ SequenceKind(reader.sequence) \in {"define", "include"} =>
          NoEndMacroIn(reader.sequence.storeds)

\* a definition without endmacro among its name, parameters and content
NoEndMacroInDefinition(def) ==
    /\ def.name # kw_endmacro
    /\ NoEndMacroIn(def.parameters)
    /\ NoEndMacroIn(def.content)

\* C27: every Identifier endmacro of a lexer stream, whatever the state of the
\* recognizer and wherever on its line, makes exactly one EndMacroPiece and is
\* never forwarded as it is; so endmacro is never an identifier that read_file
\* yields, nor in the content, the name or the parameters of a definition.
C27_EndMacroAlwaysRecord ==
    /\ \A r \in 1..Len(readers) :
          /\ OneRecordEach(EndMacroRecords(readers[r]),
                           SelectSeq(Consumed(readers[r]), IsEndMacro))
          /\ NeverRaw(readers[r])
          /\ readers[r].current_def # NoPiece =>
                NoEndMacroInDefinition(readers[r].current_def)
    /\ \A i \in 1..Len(inbox) : ~IsEndMacro(inbox[i])
    /\ \A name \in DOMAIN macro_definitions :
          name # kw_endmacro /\ NoEndMacroInDefinition(macro_definitions[name])

\* an endmacro in the middle of a line, met while a define header was open, has
\* made its record
C27_Witness ==
    /\ files = DefineThenEndMacro
    /\ \E r \in 1..Len(readers) :
          \E k \in 2..(readers[r].at - 1) :
              /\ IsEndMacro(readers[r].pieces[k])
              /\ readers[r].pieces[k - 1].kind = PIECE_SPACES
              /\ \E i \in 1..Len(readers[r].items) :
                    /\ IsEndMacroRecord(readers[r].items[i])
                    /\ readers[r].items[i].pos = readers[r].pieces[k].pos

\* expand_stream is about to read an identifier that its parameter_values bind
AtParameter ==
    /\ CanGet /\ Top.mode = "scan" /\ Got # NoPiece
    /\ Got.kind = PIECE_IDENTIFIER
    /\ Got.text \in DOMAIN Top.parameter_values

\* the step from there yields the bound list as it is and goes on scanning after
\* the identifier: no call begins and nothing of the list is read again
SubstitutesVerbatim ==
    AtParameter =>
        /\ Len(estack') = Len(estack)
        /\ Delivered(estack', output', Len(estack))
             = Delivered(estack, output, Len(estack)) \o Top.parameter_values[Got.text]
        /\ estack'[Len(estack)].mode = "scan"
        /\ estack'[Len(estack)].index = Top.index + 1
        /\ estack'[Len(estack)].elements = Top.elements
        /\ expand_nesting' = expand_nesting
        /\ status' = status

\* the text main.run received before the EndOfFile piece, once the run of the
\* files fs is over
OutputIs(fs, text) ==
    (files = fs /\ Ended) => Concat(Texts(SelectSeq(output, NotEOF))) = text

\* C28: an identifier bound by the current parameter bindings is replaced by its
\* bound list, before a macro of that name and before glue are considered; the
\* list is forwarded as it is and not scanned again, so a macro name or a
\* parameter name in it, even before "(", is not expanded.
C28_ParameterFirst ==
    [][/\ SubstitutesVerbatim
       /\ OutputIs(ShadowedNames,
                   <<NL, NL>> \o <<"[", "q", "-", "r", "(", "q", ",", "q", ")", "-", "q", "(", ")", "]">>)'
       /\ OutputIs(ValueNotRescanned,
                   <<NL, NL>> \o <<"Z", "(", ")", " ", "x", " ", "Z">>)']_vars

\* in the body of S the parameter Z, which is also a macro, or the parameter glue
\* is about to be read before "("
C28_Witness ==
    /\ AtParameter
    /\ StartsCall(Got.text)
    /\ Top.index + 3 <= Len(Top.elements)
    /\ Top.elements[Top.index + 3].kind = PIECE_PAROPEN

\* the names of the parameters of a definition
ParameterNames(def) == {def.parameters[i].text : i \in 1..Len(def.parameters)}

\* generator i expands an argument: the next one of the call its caller waits
\* for, with the caller's bindings
ArgumentEnvironment(stack, i) ==
    LET caller == stack[i - 1]
        k == Cardinality(DOMAIN caller.arg_table) + 1
    IN /\ caller.mode = "call"
       /\ k <= Len(caller.arguments)
       /\ stack[i].elements = caller.arguments[k]
       /\ stack[i].parameter_values = caller.parameter_values
       /\ \A j \in 1..(k - 1) : caller.macro_def.parameters[j].text \in DOMAIN caller.arg_table

\* generator i expands a content: every argument of the call has been expanded,
\* and the bindings are those of the parameters of the definition, no other
BodyEnvironment(stack, i) ==
    LET caller == stack[i - 1]
    IN /\ caller.mode = "call"
       /\ stack[i].elements = caller.macro_def.content
       /\ stack[i].parameter_values = caller.arg_table
       /\ DOMAIN caller.arg_table = ParameterNames(caller.macro_def)
       /\ Cardinality(DOMAIN caller.arg_table) = Len(caller.arguments)

Environments ==
    \A i \in 1..Len(estack) :
        /\ estack[i].kind = "top" <=> i = 1
        /\ estack[i].kind = "arg" => ArgumentEnvironment(estack, i)
        /\ estack[i].kind = "body" => BodyEnvironment(estack, i)

\* the bindings of a call under way change only by the expansion of its next
\* argument, which binds what that expansion delivered; a bound value stays
ExpandedOnce ==
    \A i \in 1..Len(estack) :
        (estack[i].mode = "call" /\ i <= Len(estack') /\ estack'[i].mode = "call") =>
            LET old == estack[i].arg_table
                new == estack'[i].arg_table
            IN /\ \A name \in DOMAIN old : name \in DOMAIN new /\ new[name] = old[name]
               /\ new # old =>
                     /\ i + 1 = Len(estack) /\ Top.kind = "arg" /\ AtReturn
                     /\ Cardinality(DOMAIN new) = Cardinality(DOMAIN old) + 1
                     /\ \A name \in DOMAIN new \ DOMAIN old : new[name] = Top.acc

\* C29: the arguments of a macro call are each expanded once, with the bindings
\* of the caller and the macro table as it is then, before the content is
\* expanded; the content is expanded with the bindings of the macro's own
\* parameters only, so a name that is a parameter of the caller and not of the
\* macro stays as it is in the content.
C29_Environments ==
    [][/\ Environments'
       /\ ExpandedOnce
       /\ OutputIs(CallerEnvironment,
                   <<NL, NL, NL>> \o <<"[", "x", " ", "z", " ", "y", "]", " ", "x", " ", "1">>)']_vars

\* the content of I is being expanded inside the content of O and is at the
\* identifier y, a parameter of O and not of I
C29_Witness ==
    /\ Len(estack) >= 3
    /\ Top.kind = "body"
    /\ CanGet /\ Top.mode = "scan" /\ Got # NoPiece
    /\ Got.kind = PIECE_IDENTIFIER
    /\ Got.text \notin DOMAIN Top.parameter_values
    /\ \E i \in 1..(Len(estack) - 1) : Got.text \in DOMAIN estack[i].parameter_values

\* pieces without the Whitespace and Newline pieces at its two ends
Trimmed(pieces) ==
    LET kept == {i \in 1..Len(pieces) : ~IsWhite(pieces[i])}
    IN IF kept = {} THEN <<>> ELSE SubSeq(pieces, Min(kept), Max(kept))

\* a content that is empty or has a piece other than Whitespace and Newline at
\* both ends, and holds no record of a directive
WellTrimmed(content) ==
    /\ content = <<>> \/ (~IsWhite(content[1]) /\ ~IsWhite(content[Len(content)]))
    /\ \A i \in 1..Len(content) : ~IsDirective(content[i])

\* every registered definition has such a content
ContentsTrimmed ==
    \A name \in DOMAIN macro_definitions : WellTrimmed(macro_definitions[name].content)

\* the index among the items of reader of the DefinePiece its definition began with
DefineIndex(reader) ==
    Max({j \in 1..(reader.idx - 1) : reader.items[j].kind = "define"})

\* the macro table changes only when read_file meets an EndMacroPiece inside a
\* definition: the definition is registered with, as content, the items it got
\* since the DefinePiece, all of them pieces, trimmed; no other entry changes
RegistersReceived ==
    macro_definitions' # macro_definitions =>
        /\ Pulling /\ ReaderHasItem /\ Mixed.kind = "endmacro"
        /\ Reader.current_def # NoPiece
        /\ LET define == Reader.items[DefineIndex(Reader)]
               between == SubSeq(Reader.items, DefineIndex(Reader) + 1, Reader.idx - 1)
           IN /\ \A j \in 1..Len(between) : ~IsDirective(between[j])
              /\ DOMAIN macro_definitions' = DOMAIN macro_definitions \cup {define.name}
              /\ macro_definitions'[define.name].pos = define.pos
              /\ macro_definitions'[define.name].parameters = define.parameters
              /\ macro_definitions'[define.name].content = Trimmed(between)
              /\ \A name \in DOMAIN macro_definitions \ {define.name} :
                    macro_definitions'[name] = macro_definitions[name]

\* read_file yields a piece only outside a definition
YieldsOutside ==
    (inbox' # inbox /\ inbox' # <<>> /\ inbox'[1] # NoPiece) =>
        /\ Reader.current_def = NoPiece
        /\ inbox' = <<Mixed>>

\* C30: the content of every registered definition is empty or begins and ends
\* with a piece that is neither Whitespace nor Newline; it is, in order, the
\* ordinary pieces read_file got between the DefinePiece and the EndMacroPiece
\* without the Whitespace and Newline pieces at the two ends; it holds no record
\* of a directive, and none of those pieces is yielded by read_file.
C30_ContentTrimmed ==
    [][/\ ContentsTrimmed'
       /\ RegistersReceived
       /\ YieldsOutside
       /\ OutputIs(BlankLinesInContent,
                   <<NL, "[", "a", " ", NL, " ", "b", "]">>)']_vars

\* a registered definition with Whitespace inside its content, whose DefinePiece
\* was followed by a Newline that the content does not begin with
C30_Witness ==
    \E name \in DOMAIN macro_definitions :
        /\ \E i \in 1..Len(macro_definitions[name].content) :
              IsWhite(macro_definitions[name].content[i])
        /\ \E r \in 1..Len(readers) :
              \E d \in 1..(Len(readers[r].items) - 1) :
                  /\ readers[r].items[d].kind = "define"
                  /\ readers[r].items[d].pos = macro_definitions[name].pos
                  /\ IsWhite(readers[r].items[d + 1])

\* expand_stream is about to examine an identifier
AtIdentifier ==
    /\ CanGet /\ Top.mode = "scan" /\ Got # NoPiece
    /\ Got.kind = PIECE_IDENTIFIER

\* the generator at work reads pieces of the file: no content is being expanded
FromFile == \A i \in 2..Len(estack) : estack[i].kind = "arg"

\* the indexes among the items of reader of the DefinePieces that an EndMacroPiece
\* before the position pos has completed
CompletedBefore(reader, pos) ==
    {d \in 1..Len(reader.items) :
        /\ reader.items[d].kind = "define"
        /\ \E e \in (d + 1)..Len(reader.items) :
              /\ reader.items[e].kind = "endmacro"
              /\ PositionLess(reader.items[e].pos, pos)
              /\ \A j \in (d + 1)..(e - 1) : ~IsDirective(reader.items[j])}

\* the macro table holds the definitions completed before piece, no other, and
\* for each name the last of them
TablePrecedes(reader, piece) ==
    LET done == CompletedBefore(reader, piece.pos)
    IN /\ DOMAIN macro_definitions = {reader.items[d].name : d \in done}
       /\ \A d \in done :
             \/ \E later \in done : later > d /\ reader.items[later].name = reader.items[d].name
             \/ macro_definitions[reader.items[d].name].pos = reader.items[d].pos

\* a run on one file without includes
OneFileRun == DOMAIN files = {fn_main} /\ Len(readers) = 1

\* the step at an identifier of the file that is no parameter, no macro and not
\* glue forwards it
ForwardsUnknown ==
    (AtIdentifier /\ Top.kind = "top" /\ ~StartsCall(Got.text)) =>
        output' = Append(output, Got)

\* the definition a call works with is the one the table held when the name was
\* examined, whatever is registered while the arguments are read
KeepsDefinition ==
    /\ (AtIdentifier /\ IsMacroName(Got.text) /\ Got.text \notin DOMAIN Top.parameter_values) =>
          /\ Len(estack') = Len(estack)
          /\ estack'[Len(estack)].mode = "open"
          /\ estack'[Len(estack)].macro_def = macro_definitions[Got.text]
    /\ \A i \in 1..Len(estack) :
          (estack[i].mode \in {"open", "arg", "nested", "call"} /\ i <= Len(estack')
           /\ estack'[i].mode # "scan") =>
              estack'[i].macro_def = estack[i].macro_def

\* C31 as stated: every identifier of the top-level stream, between the
\* parentheses of a call too, is examined with a macro table that holds exactly
\* the definitions whose endmacro precedes it.
C31_Original ==
    (OneFileRun /\ AtIdentifier /\ FromFile) => TablePrecedes(readers[1], Got)

\* C31 amended: an identifier that the outermost expand_stream examines, outside
\* the parentheses of any call, sees exactly the definitions whose endmacro
\* precedes it, and is forwarded when its name is not among them; a call works
\* with the definition the table held when its name was examined, also when
\* definitions are registered while its arguments are read.
C31_TableIsPast ==
    [][/\ (OneFileRun /\ AtIdentifier /\ Top.kind = "top") => TablePrecedes(readers[1], Got)
       /\ ForwardsUnknown
       /\ KeepsDefinition
       /\ OutputIs(ForwardReference, <<"G", "(", ")", NL, NL, "k">>)'
       /\ OutputIs(RedefineInArguments, <<NL, "[", "a", "]", " ", "-", "b">>)'
       /\ OutputIs(DefineInArguments, <<NL, "[", "k", NL, NL, "k", "]">>)']_vars

\* the arguments of a call of G are being read and the table holds another
\* definition of G than the one the call works with
C31_Witness ==
    /\ CanGet /\ Top.kind = "top" /\ Top.mode \in {"arg", "nested"}
    /\ Top.macro_def # NoPiece
    /\ Top.macro_def.name \in DOMAIN macro_definitions
    /\ macro_definitions[Top.macro_def.name] # Top.macro_def

\* read_file hands a piece to the expander in this step
HandsOver == inbox' # inbox /\ inbox' # <<>> /\ inbox'[1] # NoPiece

\* the items the for-loop of reader has dealt with
Dealt(reader) == SubSeq(reader.items, 1, reader.idx - 1)

\* an EndOfFile piece is among items
HasEOF(items) == \E i \in 1..Len(items) : items[i].kind = PIECE_EOF

\* no piece is handed over once an EndOfFile piece has been
EOFIsLast == HandsOver => \A r \in 1..Len(readers) : ~HasEOF(Dealt(readers[r]))

\* a piece of an included file is handed over before the EndOfFile piece of the
\* files that include it
IncludedInPlace ==
    (HandsOver /\ Len(readers') > 1) =>
        \A r \in 1..(Len(readers') - 1) : ~HasEOF(Dealt(readers'[r]))

\* an included file's own EndOfFile piece is not handed over
IncludedEOFKept == (HandsOver /\ Len(readers) > 1) => inbox'[1].kind # PIECE_EOF

\* C32: the stream read_file hands to the expander holds exactly one EndOfFile
\* piece, the last one, with includes too: the pieces of an included file come
\* where its include is, before the later pieces and before the EndOfFile piece
\* of the including file.
C32_OneEOFLast == [][EOFIsLast /\ IncludedInPlace /\ IncludedEOFKept]_vars

\* what holds instead: each file read contributes its EndOfFile piece, handed
\* over as the last piece of that file
EOFPerFile ==
    [][(HandsOver /\ inbox'[1].kind = PIECE_EOF) =>
          /\ inbox'[1].pos.fname = Reader.fname
          /\ inbox'[1] = Reader.pieces[Len(Reader.pieces)]]_vars

\* the generators of the stack that are of kind k, and those that wait in a call
FramesOfKind(k) == {i \in 1..Len(estack) : estack[i].kind = k}
CallsUnderWay == {i \in 1..Len(estack) : estack[i].mode = "call"}

\* no content is being expanded
OnlyArguments == FramesOfKind("body") = {}

\* C33 as stated: expand_nesting counts the contents being expanded, calls in the
\* arguments of a call add nothing to it, and nesting of arguments alone never
\* reaches the check of "Too many macro expansions".
C33_Original ==
    /\ status = "running" => Len(expand_nesting) = Cardinality(FramesOfKind("body"))
    /\ (Ended /\ OnlyArguments) => Len(expand_nesting) <= MAX_EXPAND_LEVEL

\* C33 amended: expand_nesting counts the calls under way, those whose arguments
\* are being expanded as well as those whose content is: the frame of a call is
\* pushed before its arguments are expanded, so a call in an argument is one
\* deeper than the call it is an argument of; ten calls nested in arguments
\* expand, the eleventh reaches the check of "Too many macro expansions".
C33_CountsCallsUnderWay ==
    /\ status = "running" => Len(expand_nesting) = Cardinality(CallsUnderWay)
    /\ \A i \in 1..Len(expand_nesting) :
          i <= Cardinality(CallsUnderWay) =>
              \E j \in CallsUnderWay :
                  /\ Cardinality({k \in CallsUnderWay : k <= j}) = i
                  /\ expand_nesting[i].macro_call = estack[j].macro_call
    /\ OutputIs(TenDeepArguments,
                <<NL>> \o [i \in 1..MAX_EXPAND_LEVEL |-> "["] \o <<"a">>
                \o [i \in 1..MAX_EXPAND_LEVEL |-> "]"])
    /\ (files = ElevenDeepArguments /\ Ended) =>
          /\ status = "crash"
          /\ Len(expand_nesting) = MAX_EXPAND_LEVEL + 1
          /\ OnlyArguments

\* the eleventh call nested in arguments has been pushed while no content was
\* being expanded
C33_Witness ==
    /\ files = ElevenDeepArguments
    /\ Len(expand_nesting) = MAX_EXPAND_LEVEL + 1
    /\ OnlyArguments
    /\ Cardinality(FramesOfKind("arg")) = MAX_EXPAND_LEVEL

\* the run ends, one way or another: no run goes on forever
Terminates == <>Ended

\* the programs whose macros call themselves, directly or through each other
Recursive == {SelfCalling, MutualCalling}

\* the recursion is cut off by the depth check, and that is how the run ends
CutOffAtDepth ==
    (files \in Recursive) => <>(Ended /\ Len(expand_nesting) = MAX_EXPAND_LEVEL + 1)

\* C34: expansion terminates: the expander exhausts its input (success) or the run
\* ends in a fatal error, and a macro that calls itself, directly or through
\* another macro, ends in the fatal error of the expansion depth.
C34_EndsDoneOrFatal ==
    /\ <>(status \in {"done", "fatal"})
    /\ (files \in Recursive) => <>(status = "fatal" /\ Len(expand_nesting) > MAX_EXPAND_LEVEL)

\* the recursive part of C34 alone
RecursionEndsFatal == (files \in Recursive) => <>(status = "fatal")

\* the part of C34 about input that is exhausted, on an interpreter before PEP 479
ExhaustsOrFatal == (~pep479 /\ files \notin Recursive) => <>(status \in {"done", "fatal"})
====
